---- MODULE Spec2Model ----
(***************************************************************************)
(* Model of the headless BSP model loader (mod_server: model registry,     *)
(* lump parsers, hull synthesis), of the byte source it reads from         *)
(* (pak_server: COM_LoadFile), and of the entity fragment linker with its  *)
(* box/plane classifier (gl_refrag: BOX_ON_PLANE_SIDE, R_AddEfrags,        *)
(* R_RemoveEfrags).                                                        *)
(*                                                                         *)
(* Conventions.  JavaScript arrays are 0-based; the tables are kept as     *)
(* TLA+ sequences and every index that the code stores (child indices,     *)
(* plane numbers, head nodes) is kept 0-based as in the code.  Object      *)
(* references are kept as tagged indices into the table that owns the      *)
(* object (NodeRef, LeafRef, PlaneRef) with NullRef for null/undefined.    *)
(* 32-bit floats are modelled by small integers; the dist of a plane may   *)
(* also be NaN.                                                            *)
(***************************************************************************)
EXTENDS Integers, Sequences, FiniteSets, TLC

(***************************************************************************)
(* Program constants                                                       *)
(***************************************************************************)
BSPVERSION == 29
HEADER_LUMPS == 15
MAX_MAP_HULLS == 4
CONTENTS_EMPTY == -1
CONTENTS_SOLID == -2
CONTENTS_WATER == -3
mod_brush == 0
mod_sprite == 1
mod_alias == 2

\* record sizes of the on-disk structures
DPLANE_SIZE == 20
DVERTEX_SIZE == 12
DLEAF_SIZE == 28
DNODE_SIZE == 24
DCLIPNODE_SIZE == 8
DMODEL_SIZE == 64

\* 4-byte version tag followed by HEADER_LUMPS (offset, length) pairs
HeaderSize == 4 + HEADER_LUMPS * 8

\* Capacity of the model registry.  The program's value is 512; the model
\* scales it down so that a full registry is reachable.
MAX_MOD_KNOWN == 2

\* Largest leaf count of a map.  The program's value is 8192; the model
\* scales it down so that a leaf table exceeding it stays small.
MAX_MAP_LEAFS == 4

(***************************************************************************)
(* Values                                                                  *)
(***************************************************************************)
NullRef == [kind |-> "null", idx |-> 0]
NodeRef(i) == [kind |-> "node", idx |-> i]
LeafRef(i) == [kind |-> "leaf", idx |-> i]
PlaneRef(i) == [kind |-> "plane", idx |-> i]

NullArr == [kind |-> "null", data |-> <<>>]
Arr(kind, data) == [kind |-> kind, data |-> data]

Vec0 == <<0, 0, 0>>

\* arr[i] of a JavaScript array held as a sequence: is index i in range?
InRange(arr, i) == i \in 0..(Len(arr) - 1)

\* ~x on a 32-bit integer
BitNot(x) == 0 - x - 1

\* A 32-bit float read from a file, where its being no number matters: the
\* number x is <<x>>, NaN is <<>>.  Every comparison with NaN is false.
NaN == <<>>
Num(x) == <<x>>
FloatLe(d, x) == d # NaN /\ d[1] <= x
FloatGe(d, x) == d # NaN /\ d[1] >= x
FloatGt(d, x) == d # NaN /\ d[1] > x

(***************************************************************************)
(* In-memory model structures                                              *)
(***************************************************************************)
\* new hull_t()
NewHull ==
    [clipnodes |-> NullArr, planes |-> NullArr,
     firstclipnode |-> 0, lastclipnode |-> 0,
     clip_mins |-> Vec0, clip_maxs |-> Vec0]

\* new model_t()
NewModel ==
    [name |-> "", type |-> mod_brush,
     mins |-> Vec0, maxs |-> Vec0,
     numsubmodels |-> 0, submodels |-> <<>>,
     numplanes |-> 0, planes |-> <<>>,
     numleafs |-> 0, leafs |-> <<>>,
     numvertexes |-> 0, vertexes |-> NullArr,
     numclipnodes |-> 0, clipnodes |-> <<>>,
     numnodes |-> 0, nodes |-> <<>>,
     hulls |-> <<>>,
     entities |-> <<>>,
     visdata |-> NullArr,
     loaded |-> FALSE]

(***************************************************************************)
(* Files of the byte source                                                *)
(*                                                                         *)
(* A file is its byte length, its version tag, the (fileofs, filelen)      *)
(* directory entries of the lumps the loader reads, and, per lump, the     *)
(* records that the bytes at that region decode to.                        *)
(***************************************************************************)
LumpNames ==
    <<"planes", "vertexes", "visibility", "leafs", "nodes", "clipnodes",
      "entities", "models">>

RECURSIVE SumTo(_, _)
SumTo(lens, k) == IF k = 0 THEN 0 ELSE lens[k] + SumTo(lens, k - 1)

\* lumps laid out one after the other behind the header
Directory(lens) ==
    [n \in {LumpNames[k] : k \in 1..Len(LumpNames)} |->
        LET k == CHOOSE j \in 1..Len(LumpNames) : LumpNames[j] = n
        IN [fileofs |-> HeaderSize + SumTo(lens, k - 1), filelen |-> lens[k]]]

DPlane(normal, dist, type) == [normal |-> normal, dist |-> dist, type |-> type]
DLeaf(contents, visofs) == [contents |-> contents, visofs |-> visofs]
DNode(planenum, c0, c1) == [planenum |-> planenum, children |-> <<c0, c1>>]
DClipnode(planenum, c0, c1) == [planenum |-> planenum, children |-> <<c0, c1>>]
DModel(mins, maxs, headnode) ==
    [mins |-> mins, maxs |-> maxs, origin |-> Vec0, headnode |-> headnode]

\* A brush file: tag, tables, per-lump surplus bytes (a length that is not a
\* multiple of the record size) and cutAt, the position in LumpNames of the
\* lump whose last byte the buffer no longer holds (0: the buffer is whole).
MkBsp(magic, planes, leafs, nodes, clipnodes, models, surplus, cutAt) ==
    LET vertexes == << <<0, 0, 0>>, <<1, 0, 0>> >>
        vis == <<1, 1>>
        ents == <<123, 125, 0>>
        lens == <<Len(planes) * DPLANE_SIZE + surplus[1],
                  Len(vertexes) * DVERTEX_SIZE + surplus[2],
                  Len(vis),
                  Len(leafs) * DLEAF_SIZE + surplus[3],
                  Len(nodes) * DNODE_SIZE + surplus[4],
                  Len(clipnodes) * DCLIPNODE_SIZE + surplus[5],
                  Len(ents),
                  Len(models) * DMODEL_SIZE + surplus[6]>>
    IN [magic |-> magic,
        byteLength |-> IF cutAt = 0 THEN HeaderSize + SumTo(lens, Len(lens))
                       ELSE HeaderSize + SumTo(lens, cutAt) - 1,
        lumps |-> Directory(lens),
        planes |-> planes, vertexes |-> vertexes, visibility |-> vis,
        leafs |-> leafs, nodes |-> nodes, clipnodes |-> clipnodes,
        entities |-> ents, models |-> models]

NoSurplus == <<0, 0, 0, 0, 0, 0>>

\* seven surplus bytes behind the last whole record of record lump k
SurplusIn(k) == [i \in 1..6 |-> IF i = k THEN 7 ELSE 0]

PlaneTable ==
    <<DPlane(<<1, 0, 0>>, Num(0), 0), DPlane(<<0, -1, 1>>, Num(1), 5)>>

\* leaf 0 is the solid leaf; the second table holds a leaf whose contents
\* is not negative
LeafTables ==
    {<<DLeaf(CONTENTS_SOLID, -1), DLeaf(CONTENTS_EMPTY, 0),
       DLeaf(CONTENTS_WATER, 1)>>,
     <<DLeaf(CONTENTS_SOLID, -1), DLeaf(CONTENTS_EMPTY, 0), DLeaf(0, -1)>>}

\* node tables: none; one node splitting an empty from the solid leaf; a
\* child node; children and a plane number out of range; a node that is
\* its own child; a node whose child is its parent; a node that node 0
\* does not reach; a node reached through both children of node 0
NodeTables ==
    {<<>>,
     <<DNode(0, -2, -1)>>,
     <<DNode(0, 1, -1), DNode(1, -2, -3)>>,
     <<DNode(0, 1, 9), DNode(5, -2, -9)>>,
     <<DNode(0, 0, -1)>>,
     <<DNode(0, 1, -1), DNode(1, 0, -2)>>,
     <<DNode(0, -2, -1), DNode(1, -3, -2)>>,
     <<DNode(0, 1, 1), DNode(1, -2, -1)>>}

ClipnodeTable == <<DClipnode(0, 1, -2), DClipnode(1, -1, -2)>>

ModelTable == <<DModel(<<-1, -1, -1>>, <<1, 1, 1>>, <<0, 0, 1, 0>>)>>

BaseLeafs ==
    <<DLeaf(CONTENTS_SOLID, -1), DLeaf(CONTENTS_EMPTY, 0),
      DLeaf(CONTENTS_WATER, 1)>>

BaseNodes == <<DNode(0, 1, -1), DNode(1, -2, -3)>>

BaseBsp ==
    MkBsp(BSPVERSION, PlaneTable, BaseLeafs, BaseNodes, ClipnodeTable,
          ModelTable, NoSurplus, 0)

\* well-laid-out brush files over every node and leaf table
TreeFiles ==
    {MkBsp(BSPVERSION, PlaneTable, leafs, nodes, ClipnodeTable, ModelTable,
           NoSurplus, 0) : leafs \in LeafTables, nodes \in NodeTables}

\* one record lump whose length is not a multiple of its record size
SurplusFiles ==
    {MkBsp(BSPVERSION, PlaneTable, BaseLeafs, BaseNodes, ClipnodeTable,
           ModelTable, SurplusIn(k), 0) : k \in 1..6}

\* a buffer that ends one byte before the end of one lump
CutFiles ==
    {MkBsp(BSPVERSION, PlaneTable, BaseLeafs, BaseNodes, ClipnodeTable,
           ModelTable, NoSurplus, k) : k \in 1..Len(LumpNames)}

\* a buffer too short for the lump directory, and one too short for the tag
ShortFiles ==
    {[BaseBsp EXCEPT !.byteLength = HeaderSize - 1],
     [BaseBsp EXCEPT !.byteLength = 2]}

\* a brush file with another version tag
WrongVersionFile == [BaseBsp EXCEPT !.magic = BSPVERSION + 1]

\* a brush file with one leaf more than MAX_MAP_LEAFS: the solid leaf and
\* empty leafs, under one node
ManyLeafs ==
    [i \in 1..(MAX_MAP_LEAFS + 1) |->
        DLeaf(IF i = 1 THEN CONTENTS_SOLID ELSE CONTENTS_EMPTY, -1)]

OverLimitFile ==
    MkBsp(BSPVERSION, PlaneTable, ManyLeafs, <<DNode(0, -2, -1)>>,
          ClipnodeTable, ModelTable, NoSurplus, 0)

\* a brush file whose plane table holds a normal of every combination of
\* negative, zero and positive components
SignNormal(k) == <<(k % 3) - 1, ((k \div 3) % 3) - 1, (k \div 9) - 1>>

SignPlanes ==
    [i \in 1..27 |->
        LET n == SignNormal(i - 1)
        IN DPlane(n, Num(0),
                  IF n = <<1, 0, 0>> THEN 0
                  ELSE IF n = <<0, 1, 0>> THEN 1
                  ELSE IF n = <<0, 0, 1>> THEN 2
                  ELSE 3)]

SignFile ==
    MkBsp(BSPVERSION, SignPlanes, BaseLeafs, BaseNodes, ClipnodeTable,
          ModelTable, NoSurplus, 0)

\* files of other formats: only their first four bytes are read
SpriteFile == [BaseBsp EXCEPT !.magic = 1347634249]
AliasFile == [BaseBsp EXCEPT !.magic = 1330660425]

BspFiles ==
    TreeFiles \cup SurplusFiles \cup CutFiles \cup ShortFiles
    \cup {WrongVersionFile, OverLimitFile, SignFile}

\* names the callers ask for; the sprite names are those ending in ".spr"
MapName == "maps/a.bsp"
SpriteName == "progs/b.spr"
AliasName == "progs/c.mdl"
Names == {MapName, SpriteName, AliasName}
EndsWithSpr(name) == name = SpriteName

\* The packs on the search path, as the files they hold under each name:
\* <<>> when no pack holds the name, <<file>> otherwise.  Either the map
\* name ranges over the brush files, or the other two names range over
\* what a pack may hold under them.
Pak(a, b, c) ==
    [n \in Names |-> IF n = MapName THEN a ELSE IF n = SpriteName THEN b ELSE c]

Paks ==
    {Pak(a, <<SpriteFile>>, <<>>) :
        a \in {<<>>} \cup {<<f>> : f \in BspFiles}}
    \cup {Pak(<<BaseBsp>>, b, c) :
        b \in {<<>>, <<SpriteFile>>, <<BaseBsp>>},
        c \in {<<>>, <<AliasFile>>}}

(***************************************************************************)
(* Lump parsers                                                            *)
(*                                                                         *)
(* Each parser maps the model being loaded and the file to the model as    *)
(* the parser leaves it and the exception it ended with ("none" when it    *)
(* returned normally).  Whatever a parser assigned before it threw stays   *)
(* assigned.                                                               *)
(***************************************************************************)
R(mod, err) == [mod |-> mod, err |-> err]

\* run Step on the outcome r of the steps before it
Then(r, Step(_, _), f) == IF r.err # "none" THEN r ELSE Step(r.mod, f)

\* new DataView(buffer, byteOffset, byteLength) throws a RangeError unless
\* the region lies inside the buffer
DataViewOK(f, lump) ==
    LET l == f.lumps[lump]
    IN /\ l.fileofs >= 0
       /\ l.filelen >= 0
       /\ l.fileofs + l.filelen <= f.byteLength

\* The byte at buffer position pos, which is byte i of a lump whose bytes
\* are bytes; a read past the end of the buffer yields no byte, which a
\* typed-array copy leaves as 0 and String.fromCharCode turns into code 0.
BufferByte(f, pos, bytes, i) ==
    IF pos < f.byteLength /\ i \in 1..Len(bytes) THEN bytes[i] ELSE 0

\* Math.floor(filelen / recordSize)
RecordCount(filelen, size) == filelen \div size

\* variant: a zero component sets its bit as a negative one does
SignBits_NonPositive(normal) ==
    (IF normal[1] <= 0 THEN 1 ELSE 0)
    + (IF normal[2] <= 0 THEN 2 ELSE 0)
    + (IF normal[3] <= 0 THEN 4 ELSE 0)

\* bit j of the sign mask is set iff normal[j] < 0
SignBits(normal) ==
    (IF normal[1] < 0 THEN 1 ELSE 0)
    + (IF normal[2] < 0 THEN 2 ELSE 0)
    + (IF normal[3] < 0 THEN 4 ELSE 0)

Mod_LoadPlanes(mod, f) ==
    IF ~DataViewOK(f, "planes") THEN R(mod, "RangeError")
    ELSE
        LET count == RecordCount(f.lumps["planes"].filelen, DPLANE_SIZE)
            planes == [i \in 1..count |->
                          [normal |-> f.planes[i].normal,
                           dist |-> f.planes[i].dist,
                           type |-> f.planes[i].type,
                           signbits |-> SignBits(f.planes[i].normal)]]
        IN R([mod EXCEPT !.planes = planes, !.numplanes = count], "none")

Mod_LoadVertexes(mod, f) ==
    IF ~DataViewOK(f, "vertexes") THEN R(mod, "RangeError")
    ELSE
        LET count == RecordCount(f.lumps["vertexes"].filelen, DVERTEX_SIZE)
        IN R([mod EXCEPT !.numvertexes = count,
                         !.vertexes = Arr("f32", SubSeq(f.vertexes, 1, count))],
             "none")

Mod_LoadVisibility(mod, f) ==
    LET l == f.lumps["visibility"]
    IN IF l.filelen = 0 THEN R([mod EXCEPT !.visdata = NullArr], "none")
       ELSE IF l.filelen < 0 THEN R(mod, "RangeError")
       ELSE R([mod EXCEPT !.visdata =
                  Arr("u8", [i \in 1..l.filelen |->
                                 BufferByte(f, l.fileofs + i - 1,
                                            f.visibility, i)])], "none")

Mod_LoadLeafs(mod, f) ==
    IF ~DataViewOK(f, "leafs") THEN R(mod, "RangeError")
    ELSE
        LET count == RecordCount(f.lumps["leafs"].filelen, DLEAF_SIZE)
            leafs == [i \in 1..count |->
                         [contents |-> f.leafs[i].contents,
                          parent |-> NullRef,
                          compressed_vis |->
                              IF f.leafs[i].visofs # -1
                                 /\ mod.visdata.kind # "null"
                              THEN [kind |-> "u8", ofs |-> f.leafs[i].visofs]
                              ELSE [kind |-> "null", ofs |-> 0]]]
        IN R([mod EXCEPT !.leafs = leafs, !.numleafs = count], "none")

\* variant: the pass returns at a leaf before it assigns the parent
RECURSIVE Mod_SetParent_NodesOnly(_, _, _, _)
Mod_SetParent_NodesOnly(st, ref, parent, depth) ==
    IF st.err # "none" \/ ref.kind = "null" THEN st
    ELSE IF ref.kind = "leaf" THEN
        (IF st.leafs[ref.idx + 1].contents < 0 THEN st
         ELSE [st EXCEPT !.err = "TypeError"])
    ELSE IF depth > Len(st.nodes) THEN [st EXCEPT !.err = "RangeError"]
    ELSE
        LET s1 == [st EXCEPT !.nodes[ref.idx + 1].parent = parent]
            s2 == Mod_SetParent_NodesOnly(s1, s1.nodes[ref.idx + 1].children[1],
                                          ref, depth + 1)
        IN Mod_SetParent_NodesOnly(s2, s2.nodes[ref.idx + 1].children[2],
                                   ref, depth + 1)

\* Mod_SetParent on the tables st = [nodes, leafs, err].  A node met deeper
\* than the number of nodes lies on a cycle of the child graph: the
\* recursion never returns and ends with the call stack exhausted.  A leaf
\* whose contents is not negative is taken for a node, and reading its
\* children throws a TypeError.
RECURSIVE Mod_SetParent(_, _, _, _)
Mod_SetParent(st, ref, parent, depth) ==
    IF st.err # "none" \/ ref.kind = "null" THEN st
    ELSE IF ref.kind = "leaf" THEN
        LET s1 == [st EXCEPT !.leafs[ref.idx + 1].parent = parent]
        IN IF st.leafs[ref.idx + 1].contents < 0 THEN s1
           ELSE [s1 EXCEPT !.err = "TypeError"]
    ELSE IF depth > Len(st.nodes) THEN [st EXCEPT !.err = "RangeError"]
    ELSE
        LET s1 == [st EXCEPT !.nodes[ref.idx + 1].parent = parent]
            s2 == Mod_SetParent(s1, s1.nodes[ref.idx + 1].children[1],
                                ref, depth + 1)
        IN Mod_SetParent(s2, s2.nodes[ref.idx + 1].children[2],
                         ref, depth + 1)

\* mod.nodes[child] or mod.leafs[~child] of a 16-bit child index
ChildRef(mod, count, child) ==
    IF child >= 0
    THEN (IF child \in 0..(count - 1) THEN NodeRef(child) ELSE NullRef)
    ELSE (IF InRange(mod.leafs, BitNot(child))
          THEN LeafRef(BitNot(child)) ELSE NullRef)

Mod_LoadNodes(mod, f) ==
    IF ~DataViewOK(f, "nodes") THEN R(mod, "RangeError")
    ELSE
        LET count == RecordCount(f.lumps["nodes"].filelen, DNODE_SIZE)
            nodes == [i \in 1..count |->
                         [contents |-> 0,
                          parent |-> NullRef,
                          plane |-> IF InRange(mod.planes, f.nodes[i].planenum)
                                    THEN PlaneRef(f.nodes[i].planenum)
                                    ELSE NullRef,
                          children |->
                              <<ChildRef(mod, count, f.nodes[i].children[1]),
                                ChildRef(mod, count, f.nodes[i].children[2])>>]]
            root == IF count > 0 THEN NodeRef(0) ELSE NullRef
            st == Mod_SetParent([nodes |-> nodes, leafs |-> mod.leafs,
                                 err |-> "none"], root, NullRef, 1)
        IN R([mod EXCEPT !.nodes = st.nodes, !.numnodes = count,
                         !.leafs = st.leafs], st.err)

Mod_LoadClipnodes(mod, f) ==
    IF ~DataViewOK(f, "clipnodes") THEN R(mod, "RangeError")
    ELSE
        LET count == RecordCount(f.lumps["clipnodes"].filelen, DCLIPNODE_SIZE)
            clipnodes == [i \in 1..count |->
                             [planenum |-> f.clipnodes[i].planenum,
                              children |-> f.clipnodes[i].children]]
            hull1 == [NewHull EXCEPT
                         !.clipnodes = Arr("mod.clipnodes", clipnodes),
                         !.planes = Arr("mod.planes", mod.planes),
                         !.clip_mins = <<-16, -16, -24>>,
                         !.clip_maxs = <<16, 16, 32>>]
            hull2 == [NewHull EXCEPT
                         !.clipnodes = Arr("mod.clipnodes", clipnodes),
                         !.planes = Arr("mod.planes", mod.planes),
                         !.clip_mins = <<-32, -32, -24>>,
                         !.clip_maxs = <<32, 32, 64>>]
        IN R([mod EXCEPT !.clipnodes = clipnodes, !.numclipnodes = count,
                         !.hulls = <<NewHull, hull1, hull2, NewHull>>],
             "none")

Mod_LoadEntities(mod, f) ==
    LET l == f.lumps["entities"]
    IN IF l.filelen = 0 THEN R([mod EXCEPT !.entities = <<>>], "none")
       ELSE R([mod EXCEPT !.entities =
                  [i \in 1..(l.filelen - 1) |->
                      BufferByte(f, l.fileofs + i - 1, f.entities, i)]],
              "none")

Mod_LoadSubmodels(mod, f) ==
    IF ~DataViewOK(f, "models") THEN R(mod, "RangeError")
    ELSE
        LET count == RecordCount(f.lumps["models"].filelen, DMODEL_SIZE)
        IN R([mod EXCEPT !.submodels = SubSeq(f.models, 1, count),
                         !.numsubmodels = count], "none")

\* Array.prototype.indexOf on mod.planes / mod.nodes: the position of the
\* object a reference denotes, -1 when the array does not hold it
IndexOf(kind, ref) == IF ref.kind = kind THEN ref.idx ELSE -1

\* contents field of the node or leaf a child reference denotes
ContentsOf(mod, ref) ==
    IF ref.kind = "leaf" THEN mod.leafs[ref.idx + 1].contents
    ELSE mod.nodes[ref.idx + 1].contents

Hull0Child(mod, child) ==
    IF child.kind = "null" THEN CONTENTS_SOLID
    ELSE IF ContentsOf(mod, child) < 0 THEN ContentsOf(mod, child)
    ELSE IndexOf("node", child)

\* variant: hull 0 is given the loaded clipnode array
Mod_MakeHull0_Shared(mod, f) ==
    R([mod EXCEPT !.hulls[1] =
          [@ EXCEPT !.planes = Arr("mod.planes", mod.planes),
                    !.firstclipnode = 0,
                    !.lastclipnode = mod.numnodes - 1,
                    !.clipnodes = Arr("mod.clipnodes", mod.clipnodes)]],
      "none")

Mod_MakeHull0(mod, f) ==
    LET clipnodes == [i \in 1..mod.numnodes |->
                         [planenum |-> IndexOf("plane", mod.nodes[i].plane),
                          children |->
                              <<Hull0Child(mod, mod.nodes[i].children[1]),
                                Hull0Child(mod, mod.nodes[i].children[2])>>]]
    IN R([mod EXCEPT !.hulls[1] =
             [@ EXCEPT !.planes = Arr("mod.planes", mod.planes),
                       !.firstclipnode = 0,
                       !.lastclipnode = mod.numnodes - 1,
                       !.clipnodes = Arr("hull0", clipnodes)]], "none")

\* model bounds taken from submodel 0
SetBounds(mod, f) ==
    IF Len(mod.submodels) > 0
    THEN R([mod EXCEPT !.mins = mod.submodels[1].mins,
                       !.maxs = mod.submodels[1].maxs], "none")
    ELSE R(mod, "none")

\* The version check of Mod_LoadBrushModel; Sys_Error ends the process.
VersionCheck(mod, f) ==
    IF f.magic # BSPVERSION THEN R(mod, "Sys_Error") ELSE R(mod, "none")

\* Reading the lump directory needs the whole header inside the buffer.
ReadDirectory(mod, f) ==
    IF f.byteLength < HeaderSize THEN R(mod, "RangeError") ELSE R(mod, "none")

Mod_LoadBrushModel(mod, f) ==
    LET s0 == VersionCheck([mod EXCEPT !.type = mod_brush], f)
        s1 == Then(s0, ReadDirectory, f)
        s2 == Then(s1, Mod_LoadPlanes, f)
        s3 == Then(s2, Mod_LoadVertexes, f)
        s4 == Then(s3, Mod_LoadVisibility, f)
        s5 == Then(s4, Mod_LoadLeafs, f)
        s6 == Then(s5, Mod_LoadNodes, f)
        s7 == Then(s6, Mod_LoadClipnodes, f)
        s8 == Then(s7, Mod_LoadEntities, f)
        s9 == Then(s8, Mod_LoadSubmodels, f)
        s10 == Then(s9, Mod_MakeHull0, f)
    IN Then(s10, SetBounds, f)

(***************************************************************************)
(* Box/plane classifier                                                    *)
(***************************************************************************)
Dot(n, a, b, c) == n[1] * a[1] + n[2] * b[2] + n[3] * c[3]

\* variant: a box whose near face touches the plane is not in front
AxialSide_Strict(emins, emaxs, p) ==
    IF FloatLe(p.dist, emins[p.type + 1] - 1) THEN 1
    ELSE IF FloatGe(p.dist, emaxs[p.type + 1]) THEN 2
    ELSE 3

\* the axial cases: two comparisons on component p.type of the box
AxialSide(emins, emaxs, p) ==
    IF FloatLe(p.dist, emins[p.type + 1]) THEN 1
    ELSE IF FloatGe(p.dist, emaxs[p.type + 1]) THEN 2
    ELSE 3

\* variant: dist1 from the maxs corner whatever the sign mask
BoxDist1_Maxs(emins, emaxs, p) == Dot(p.normal, emaxs, emaxs, emaxs)

\* dist1 of the general case, by the branch the sign mask selects
BoxDist1(emins, emaxs, p) ==
    LET n == p.normal
    IN CASE p.signbits = 0 -> Dot(n, emaxs, emaxs, emaxs)
         [] p.signbits = 1 -> Dot(n, emins, emaxs, emaxs)
         [] p.signbits = 2 -> Dot(n, emaxs, emins, emaxs)
         [] p.signbits = 3 -> Dot(n, emins, emins, emaxs)
         [] p.signbits = 4 -> Dot(n, emaxs, emaxs, emins)
         [] p.signbits = 5 -> Dot(n, emins, emaxs, emins)
         [] p.signbits = 6 -> Dot(n, emaxs, emins, emins)
         [] p.signbits = 7 -> Dot(n, emins, emins, emins)
         [] OTHER -> 0

\* dist2 of the general case
BoxDist2(emins, emaxs, p) ==
    LET n == p.normal
    IN CASE p.signbits = 0 -> Dot(n, emins, emins, emins)
         [] p.signbits = 1 -> Dot(n, emaxs, emins, emins)
         [] p.signbits = 2 -> Dot(n, emins, emaxs, emins)
         [] p.signbits = 3 -> Dot(n, emaxs, emaxs, emins)
         [] p.signbits = 4 -> Dot(n, emins, emins, emaxs)
         [] p.signbits = 5 -> Dot(n, emaxs, emins, emaxs)
         [] p.signbits = 6 -> Dot(n, emins, emaxs, emaxs)
         [] p.signbits = 7 -> Dot(n, emaxs, emaxs, emaxs)
         [] OTHER -> 0

\* variant: dist1 > dist in place of dist1 >= dist
SidesOf_Strict(dist1, dist2, dist) ==
    (IF FloatLe(dist, dist1 - 1) THEN 1 ELSE 0)
    + (IF FloatGt(dist, dist2) THEN 2 ELSE 0)

\* sides = 0; if (dist1 >= dist) sides = 1; if (dist2 < dist) sides |= 2
SidesOf(dist1, dist2, dist) ==
    (IF FloatLe(dist, dist1) THEN 1 ELSE 0)
    + (IF FloatGt(dist, dist2) THEN 2 ELSE 0)

\* BOX_ON_PLANE_SIDE: 1 front, 2 back, 3 both
BOX_ON_PLANE_SIDE(emins, emaxs, p) ==
    IF p.type < 3
    THEN AxialSide(emins, emaxs, p)
    ELSE SidesOf(BoxDist1(emins, emaxs, p), BoxDist2(emins, emaxs, p), p.dist)

\* a plane as the plane loader builds it
MPlane(normal, dist, type) ==
    [normal |-> normal, dist |-> dist, type |-> type,
     signbits |-> SignBits(normal)]

(***************************************************************************)
(* State                                                                   *)
(***************************************************************************)
VARIABLES
    mod_known,      \* the registry: MAX_MOD_KNOWN preallocated model_t
    mod_numknown,   \* number of slots in use
    loadmodel,      \* slot of the model loaded last (0: null)
    mod_base,       \* name of the file whose bytes were loaded last ("": null)
    pak,            \* the byte source: name -> <<>> or <<file>>
    exited,         \* the process has ended (Deno.exit)
    last,           \* the last call and its outcome
    okslot,         \* per name: the slot its successful load returned since
                    \* the last Mod_ClearAll (0: none)
    reload          \* per name: the slot whose loaded model Mod_ClearAll
                    \* cleared last (0: none), and whether a load has
                    \* read the name again since

loaderVars ==
    <<mod_known, mod_numknown, loadmodel, mod_base, pak, exited, last, okslot,
      reload>>

\* the state of the fragment linker
VARIABLES
    cl_set,           \* _cl was set by R_Efrag_SetExternals
    world,            \* cl.worldmodel
    free_efrags,      \* cl.free_efrags
    efrags,           \* the fragment records
    leaf_efrags,      \* leaf.efrags of every leaf of the world
    ent_efrag,        \* ent.efrag of every entity
    ent_topnode,      \* ent.topnode of every entity
    r_addent, lastlink, r_pefragtopnode, r_emins, r_emaxs,
    ehist             \* the last call that reached the fragment lists

efragVars ==
    <<cl_set, world, free_efrags, efrags, leaf_efrags, ent_efrag,
      ent_topnode, r_addent, lastlink, r_pefragtopnode, r_emins, r_emaxs,
      ehist>>

\* the classifier's arguments and its result (-1: not called yet)
VARIABLES box_p, box_mins, box_maxs, box_sides

boxVars == <<box_p, box_mins, box_maxs, box_sides>>

\* the state of the server host and of its network driver
VARIABLES
    host_inited,    \* Host_Init_Server has run
    sv_active,      \* sv.active
    svs_maxclients, \* svs.maxclients
    svs_clients,    \* svs.clients
    net_listening,  \* the driver accepts connections
    net_pending,    \* sockets that CheckNewConnections has yet to hand out
    net_closed,     \* sockets the host has closed
    net_next,       \* the next socket the driver creates
    hhist,          \* the last host call: the slots before it, the sockets
                    \* it was handed, the slots after SV_CheckForNewClients
    sv_paused,      \* sv.paused
    sv_time,        \* sv.time
    sv_frametime,   \* sv.frametime
    host_frametime, \* host_frametime
    host_time,      \* host_time
    net_closelog,   \* the sockets handed to Close, one entry per call
    fhist           \* the last call of Host_ServerFrame: the state it found,
                    \* the driver's answers, the slots after each step

\* the clocks and the pause flag
clockVars == <<sv_paused, sv_time, sv_frametime, host_frametime, host_time>>

hostVars ==
    <<host_inited, sv_active, svs_maxclients, svs_clients, net_listening,
      net_pending, net_closed, net_next, hhist, clockVars, net_closelog,
      fhist>>

vars == <<loaderVars, efragVars, boxVars, hostVars>>

Call(op, name, ret, fetched, parsed, err) ==
    [op |-> op, name |-> name, ret |-> ret, fetched |-> fetched,
     parsed |-> parsed, err |-> err]

\* Mod_Init, after the packs were added to the search path
LoaderInit(paks) ==
    /\ mod_known = [i \in 1..MAX_MOD_KNOWN |-> NewModel]
    /\ mod_numknown = 0
    /\ loadmodel = 0
    /\ mod_base = ""
    /\ pak \in paks
    /\ exited = FALSE
    /\ last = Call("Mod_Init", "", 0, FALSE, FALSE, "none")
    /\ okslot = [n \in Names |-> 0]
    /\ reload = [n \in Names |-> [slot |-> 0, again |-> FALSE]]

\* COM_LoadFile: a copy of the bytes a pack holds under the name, or null
COM_LoadFile(name) == pak[name]

(***************************************************************************)
(* Model registry                                                          *)
(***************************************************************************)
\* variant: the search for a slot that holds the name is skipped
Mod_FindName_NoSearch(known, numknown, name) ==
    IF name = ""
    THEN [known |-> known, numknown |-> numknown, slot |-> 0,
          err |-> "Sys_Error"]
    ELSE IF numknown >= MAX_MOD_KNOWN
    THEN [known |-> known, numknown |-> numknown, slot |-> 0,
          err |-> "Sys_Error"]
    ELSE [known |-> [known EXCEPT ![numknown + 1].name = name],
          numknown |-> numknown + 1, slot |-> numknown + 1, err |-> "none"]

\* variant: the empty name is taken like any other name
Mod_FindName_NoNameTest(known, numknown, name) ==
    IF \E i \in 1..numknown : known[i].name = name
    THEN [known |-> known, numknown |-> numknown,
          slot |-> CHOOSE i \in 1..numknown : known[i].name = name,
          err |-> "none"]
    ELSE IF numknown >= MAX_MOD_KNOWN
    THEN [known |-> known, numknown |-> numknown, slot |-> 0,
          err |-> "Sys_Error"]
    ELSE [known |-> [known EXCEPT ![numknown + 1].name = name],
          numknown |-> numknown + 1, slot |-> numknown + 1, err |-> "none"]

\* Mod_FindName: the registry after the call, the slot returned (0: none)
\* and the exception raised.  Slot k is mod_known[k - 1] of the code.
Mod_FindName(known, numknown, name) ==
    IF name = ""
    THEN [known |-> known, numknown |-> numknown, slot |-> 0,
          err |-> "Sys_Error"]
    ELSE IF \E i \in 1..numknown : known[i].name = name
    THEN [known |-> known, numknown |-> numknown,
          slot |-> CHOOSE i \in 1..numknown :
                      /\ known[i].name = name
                      /\ \A j \in 1..(i - 1) : known[j].name # name,
          err |-> "none"]
    ELSE IF numknown >= MAX_MOD_KNOWN
    THEN [known |-> known, numknown |-> numknown, slot |-> 0,
          err |-> "Sys_Error"]
    ELSE [known |-> [known EXCEPT ![numknown + 1].name = name],
          numknown |-> numknown + 1, slot |-> numknown + 1, err |-> "none"]

\* variant: mod.loaded = true whatever the parse ended with
MarkLoaded_Always(r) == [r.mod EXCEPT !.loaded = TRUE]

\* mod.loaded = true is reached only when the parse returned normally
MarkLoaded(r) == IF r.err = "none" THEN [r.mod EXCEPT !.loaded = TRUE] ELSE r.mod

\* variant: a model whose file was not found counts as loaded
NotFound_Cached(mod, crash) ==
    [mod |-> [mod EXCEPT !.loaded = TRUE], ret |-> FALSE, fetched |-> TRUE,
     parsed |-> FALSE, err |-> IF crash THEN "Sys_Error" ELSE "none"]

\* Mod_LoadModel when COM_LoadFile returned null
NotFound(mod, crash) ==
    [mod |-> mod, ret |-> FALSE, fetched |-> TRUE, parsed |-> FALSE,
     err |-> IF crash THEN "Sys_Error" ELSE "none"]

\* variant: every model that is not a brush model is tagged alias
SkipNonBsp_Alias(mod) == [mod EXCEPT !.type = mod_alias, !.loaded = TRUE]

\* Mod_LoadModel on bytes whose tag is not BSPVERSION: the model is tagged
\* by its name and marked loaded
SkipNonBsp(mod) ==
    [mod EXCEPT !.type = IF EndsWithSpr(mod.name) THEN mod_sprite ELSE mod_alias,
                !.loaded = TRUE]

\* Mod_LoadModel past the test of mod.loaded: fetch the bytes and parse them
LoadFromSource(mod, crash) ==
    LET buf == COM_LoadFile(mod.name)
    IN IF buf = <<>>
       THEN NotFound(mod, crash)
       ELSE IF buf[1].byteLength < 4
       THEN [mod |-> mod, ret |-> FALSE, fetched |-> TRUE, parsed |-> FALSE,
             err |-> "RangeError"]
       ELSE IF buf[1].magic = BSPVERSION
       THEN LET r == Mod_LoadBrushModel(mod, buf[1])
            IN [mod |-> MarkLoaded(r), ret |-> r.err = "none",
                fetched |-> TRUE, parsed |-> TRUE, err |-> r.err]
       ELSE [mod |-> SkipNonBsp(mod),
             ret |-> TRUE, fetched |-> TRUE, parsed |-> FALSE, err |-> "none"]

\* variant: the loaded flag is not consulted
Mod_LoadModel_Refetch(mod, crash) == LoadFromSource(mod, crash)

\* Mod_LoadModel on the model mod: the model after the call, whether the
\* model was returned (ret), whether the byte source was asked (fetched),
\* whether the bytes were parsed (parsed) and the exception raised.
Mod_LoadModel(mod, crash) ==
    IF mod.loaded
    THEN [mod |-> mod, ret |-> TRUE, fetched |-> FALSE, parsed |-> FALSE,
          err |-> "none"]
    ELSE LoadFromSource(mod, crash)

\* loadmodel and mod_base are assigned once the bytes were obtained
SetLoading(slot, r) ==
    IF r.fetched /\ COM_LoadFile(mod_known[slot].name) # <<>>
    THEN /\ loadmodel' = slot
         /\ mod_base' = mod_known[slot].name
    ELSE UNCHANGED <<loadmodel, mod_base>>

(***************************************************************************)
(* Operations of the registry                                              *)
(***************************************************************************)
FindName(name) ==
    /\ ~exited
    /\ LET r == Mod_FindName(mod_known, mod_numknown, name)
       IN /\ mod_known' = r.known
          /\ mod_numknown' = r.numknown
          /\ exited' = (r.err = "Sys_Error")
          /\ last' = Call("Mod_FindName", name, r.slot, FALSE, FALSE, r.err)
    /\ UNCHANGED <<loadmodel, mod_base, pak, okslot, reload, efragVars,
                   boxVars, hostVars>>

\* reload after a load of name with the outcome r
Reloaded(name, r) ==
    IF r.ret /\ r.fetched /\ reload[name].slot # 0
    THEN [reload EXCEPT ![name].again = TRUE]
    ELSE reload

\* okslot after a load of name that returned slot (ret) or nothing
Succeeded(name, ret, slot) ==
    IF ret THEN [okslot EXCEPT ![name] = slot] ELSE okslot

LoadModel(slot, crash) ==
    /\ ~exited
    /\ slot \in 1..mod_numknown
    /\ \E r \in {Mod_LoadModel(mod_known[slot], crash)} :
          /\ mod_known' = [mod_known EXCEPT ![slot] = r.mod]
          /\ SetLoading(slot, r)
          /\ exited' = (r.err = "Sys_Error")
          /\ last' = Call("Mod_LoadModel", mod_known[slot].name,
                          IF r.ret THEN slot ELSE 0, r.fetched, r.parsed,
                          r.err)
          /\ okslot' = Succeeded(mod_known[slot].name, r.ret, slot)
          /\ reload' = Reloaded(mod_known[slot].name, r)
    /\ UNCHANGED <<mod_numknown, pak, efragVars, boxVars, hostVars>>

ForName(name, crash) ==
    /\ ~exited
    /\ LET fr == Mod_FindName(mod_known, mod_numknown, name)
       IN IF fr.err # "none"
          THEN /\ mod_known' = fr.known
               /\ mod_numknown' = fr.numknown
               /\ exited' = TRUE
               /\ last' = Call("Mod_ForName", name, 0, FALSE, FALSE, fr.err)
               /\ UNCHANGED <<loadmodel, mod_base, okslot, reload>>
          ELSE \E r \in {Mod_LoadModel(fr.known[fr.slot], crash)} :
                  /\ mod_known' = [fr.known EXCEPT ![fr.slot] = r.mod]
                  /\ mod_numknown' = fr.numknown
                  /\ IF r.fetched /\ COM_LoadFile(name) # <<>>
                     THEN loadmodel' = fr.slot /\ mod_base' = name
                     ELSE UNCHANGED <<loadmodel, mod_base>>
                  /\ exited' = (r.err = "Sys_Error")
                  /\ last' = Call("Mod_ForName", name,
                                  IF r.ret THEN fr.slot ELSE 0, r.fetched,
                                  r.parsed, r.err)
                  /\ okslot' = Succeeded(name, r.ret, fr.slot)
                  /\ reload' = Reloaded(name, r)
    /\ UNCHANGED <<pak, efragVars, boxVars, hostVars>>

\* variant: the used slots are released, only their names are kept
Mod_ClearAll_Release(known, numknown) ==
    [i \in 1..MAX_MOD_KNOWN |->
        IF i <= numknown
        THEN [NewModel EXCEPT !.name = known[i].name]
        ELSE known[i]]

\* variant: the last used slot keeps its loaded flag
Mod_ClearAll_SkipLast(known, numknown) ==
    [i \in 1..MAX_MOD_KNOWN |->
        IF i < numknown THEN [known[i] EXCEPT !.loaded = FALSE]
        ELSE known[i]]

\* Mod_ClearAll: the registry after the call
Mod_ClearAll(known, numknown) ==
    [i \in 1..MAX_MOD_KNOWN |->
        IF i <= numknown THEN [known[i] EXCEPT !.loaded = FALSE]
        ELSE known[i]]

ClearAll ==
    /\ ~exited
    /\ mod_known' = Mod_ClearAll(mod_known, mod_numknown)
    /\ last' = Call("Mod_ClearAll", "", 0, FALSE, FALSE, "none")
    /\ okslot' = [n \in Names |-> 0]
    /\ reload' = [n \in Names |->
                     IF okslot[n] # 0
                     THEN [slot |-> okslot[n], again |-> FALSE]
                     ELSE reload[n]]
    /\ UNCHANGED <<mod_numknown, loadmodel, mod_base, pak, exited, efragVars,
                   boxVars, hostVars>>

LoaderNext ==
    \/ \E name \in Names \cup {""} : FindName(name)
    \/ \E name \in Names \cup {""}, crash \in BOOLEAN : ForName(name, crash)
    \/ \E slot \in 1..MAX_MOD_KNOWN, crash \in BOOLEAN : LoadModel(slot, crash)
    \/ ClearAll

(***************************************************************************)
(* Entity fragments                                                        *)
(*                                                                         *)
(* Fragment records are numbered 1..MaxEfrags, 0 is null.  The world is    *)
(* the node tree of cl.worldmodel; leaf i's chain head is leaf_efrags[i].  *)
(***************************************************************************)
\* size of the fragment pool
MaxEfrags == 2

\* the entities; two of them can share a leaf chain
Ents == {1, 2}

WNode(plane, c0, c1) == [plane |-> plane, children |-> <<c0, c1>>]

\* one node splitting an empty leaf (front) from the solid leaf (back)
World1 ==
    [nodes |-> <<WNode(MPlane(<<1, 0, 0>>, Num(0), 0), LeafRef(1), LeafRef(0))>>,
     leafs |-> <<CONTENTS_SOLID, CONTENTS_EMPTY>>]

\* an axial node over the solid leaf (back) and a node with a general plane
\* that splits an empty leaf from a water leaf
World2 ==
    [nodes |-> <<WNode(MPlane(<<1, 0, 0>>, Num(0), 0), NodeRef(1), LeafRef(0)),
                 WNode(MPlane(<<1, 1, 0>>, Num(2), 3), LeafRef(1), LeafRef(2))>>,
     leafs |-> <<CONTENTS_SOLID, CONTENTS_EMPTY, CONTENTS_WATER>>]

\* a node with an absent child and a child node over solid and lava
World3 ==
    [nodes |-> <<WNode(MPlane(<<0, 1, 0>>, Num(1), 1), NullRef, NodeRef(1)),
                 WNode(MPlane(<<-1, 0, 0>>, Num(0), 3), LeafRef(0), LeafRef(1))>>,
     leafs |-> <<CONTENTS_SOLID, -5>>]

\* one node over two solid leafs
World4 ==
    [nodes |-> <<WNode(MPlane(<<1, 0, 0>>, Num(0), 0), LeafRef(0), LeafRef(1))>>,
     leafs |-> <<CONTENTS_SOLID, CONTENTS_SOLID>>]

\* a model without nodes
World0 == [nodes |-> <<>>, leafs |-> <<>>]

Worlds == {World1, World2, World3, World4}

\* ent.origin and the bounds of ent.model (<<>>: the entity has no model)
Origins == {<<-2, 0, 0>>, <<0, 0, 0>>, <<1, 0, 0>>, <<2, 2, 0>>}
EntModels == {<<>>, <<[mins |-> <<-1, -1, -1>>, maxs |-> <<1, 1, 1>>]>>}

NewEfrag == [entity |-> 0, leaf |-> NullRef, leafnext |-> 0, entnext |-> 0]

\* the records reached from head by following field next, at most fuel of them
RECURSIVE Chain(_, _, _, _)
Chain(pool, head, next, fuel) ==
    IF head = 0 \/ fuel = 0 THEN <<>>
    ELSE <<head>> \o Chain(pool, pool[head][next], next, fuel - 1)

\* the linker's lists as one value
EState ==
    [free |-> free_efrags, efrags |-> efrags, leafs |-> leaf_efrags,
     ents |-> ent_efrag]

FreeListOf(S) == Chain(S.efrags, S.free, "entnext", MaxEfrags + 1)
EntChainOf(S, e) == Chain(S.efrags, S.ents[e], "entnext", MaxEfrags + 1)
LeafChainOf(S, l) == Chain(S.efrags, S.leafs[l], "leafnext", MaxEfrags + 1)
LeafChainsOf(S) == [l \in DOMAIN S.leafs |-> LeafChainOf(S, l)]

\* ehist.fresh: the last call is an add to an entity whose chain was empty,
\* or the remove of that entity directly after that add
EHist(op, ent, fresh) == [op |-> op, ent |-> ent, fresh |-> fresh]

\* The module state before R_Efrag_SetExternals; the pool is one free list
\* in record order.
EfragInit(w) ==
    /\ cl_set = FALSE
    /\ world = w
    /\ free_efrags = 1
    /\ efrags = [i \in 1..MaxEfrags |->
                    [NewEfrag EXCEPT
                        !.entnext = IF i < MaxEfrags THEN i + 1 ELSE 0]]
    /\ leaf_efrags = [l \in 1..Len(w.leafs) |-> 0]
    /\ ent_efrag = [e \in Ents |-> 0]
    /\ ent_topnode = [e \in Ents |-> NullRef]
    /\ r_addent = 0
    /\ lastlink = 0
    /\ r_pefragtopnode = NullRef
    /\ r_emins = Vec0
    /\ r_emaxs = Vec0
    /\ ehist = EHist("none", 0, FALSE)

R_Efrag_SetExternals ==
    /\ ~cl_set
    /\ cl_set' = TRUE
    /\ UNCHANGED <<world, free_efrags, efrags, leaf_efrags, ent_efrag,
                   ent_topnode, r_addent, lastlink, r_pefragtopnode, r_emins,
                   r_emaxs, ehist, loaderVars, boxVars, hostVars>>

\* contents of the node or leaf a reference denotes
WContents(w, ref) == IF ref.kind = "leaf" THEN w.leafs[ref.idx + 1] ELSE 0

\* sides & 1: the front child is contacted
FrontSide(sides) == sides \in {1, 3}

\* variant: the back child is left out when the box straddles the plane
BackSide_Only(sides) == sides = 2

\* sides & 2: the back child is contacted
BackSide(sides) == sides \in {2, 3}

\* variant: r_pefragtopnode becomes the leaf whatever it holds
TopLeaf_Always(st, node) == [st EXCEPT !.topnode = node]

\* r_pefragtopnode becomes the leaf when it is still null
TopLeaf(st, node) ==
    IF st.topnode.kind = "null" THEN [st EXCEPT !.topnode = node] ELSE st

\* variant: the record is linked but stays the head of the free list
TakeEfrag_NoPop(s1, ent, node) ==
    LET ef == s1.free
        l == node.idx + 1
        linked ==
            IF s1.lastlink # 0
            THEN [s1.efrags EXCEPT ![s1.lastlink].entnext = ef]
            ELSE s1.efrags
    IN [s1 EXCEPT
           !.entefrag = IF s1.lastlink # 0 THEN @ ELSE ef,
           !.lastlink = ef,
           !.efrags = [linked EXCEPT
                          ![ef] = [entity |-> ent,
                                   leaf |-> node,
                                   leafnext |-> s1.leafs[l],
                                   entnext |-> s1.efrags[ef].entnext]],
           !.leafs[l] = ef]

\* the head of the free list is taken, appended to the entity's chain and
\* pushed on the chain of the leaf
TakeEfrag(s1, ent, node) ==
    LET ef == s1.free
        l == node.idx + 1
        linked ==
            IF s1.lastlink # 0
            THEN [s1.efrags EXCEPT ![s1.lastlink].entnext = ef]
            ELSE s1.efrags
    IN [s1 EXCEPT
           !.free = s1.efrags[ef].entnext,
           !.entefrag = IF s1.lastlink # 0 THEN @ ELSE ef,
           !.lastlink = ef,
           !.efrags = [linked EXCEPT
                          ![ef] = [entity |-> ent,
                                   leaf |-> node,
                                   leafnext |-> s1.leafs[l],
                                   entnext |-> 0]],
           !.leafs[l] = ef]

\* variant: the leaf's chain head is assigned before the free list is
\* tested, so an empty free list empties the chain of the leaf
AttachEfrag_ClearLeaf(st, ent, node) ==
    LET s1 == TopLeaf(st, node)
    IN IF s1.free = 0 THEN [s1 EXCEPT !.leafs[node.idx + 1] = 0]
       ELSE TakeEfrag(s1, ent, node)

\* R_SplitEntityOnNode at a leaf other than SOLID: "Too many efrags!" is
\* printed and the leaf is skipped when the free list is empty
AttachEfrag(st, ent, node) ==
    LET s1 == TopLeaf(st, node)
    IN IF s1.free = 0 THEN s1 ELSE TakeEfrag(s1, ent, node)

\* R_SplitEntityOnNode on st = [free, efrags, leafs, entefrag, lastlink,
\* topnode], for the entity ent and the box emins..emaxs
RECURSIVE R_SplitEntityOnNode(_, _, _, _, _, _)
R_SplitEntityOnNode(st, w, ent, emins, emaxs, node) ==
    IF node.kind = "null" THEN st
    ELSE IF WContents(w, node) = CONTENTS_SOLID THEN st
    ELSE IF WContents(w, node) < 0 THEN AttachEfrag(st, ent, node)
    ELSE
        LET n == w.nodes[node.idx + 1]
            sides == BOX_ON_PLANE_SIDE(emins, emaxs, n.plane)
            s1 == IF sides = 3 /\ st.topnode.kind = "null"
                  THEN [st EXCEPT !.topnode = node] ELSE st
            s2 == IF FrontSide(sides)
                  THEN R_SplitEntityOnNode(s1, w, ent, emins, emaxs,
                                           n.children[1])
                  ELSE s1
        IN IF BackSide(sides)
           THEN R_SplitEntityOnNode(s2, w, ent, emins, emaxs, n.children[2])
           ELSE s2

VecAdd(a, b) == <<a[1] + b[1], a[2] + b[2], a[3] + b[3]>>

\* the lists, lastlink and r_pefragtopnode after R_AddEfrags has split the
\* box emins..emaxs of entity ent on the world w, from the lists S
AddEfragsTo(S, w, ent, emins, emaxs) ==
    LET root == IF Len(w.nodes) > 0 THEN NodeRef(0) ELSE NullRef
        st == R_SplitEntityOnNode(
                  [free |-> S.free, efrags |-> S.efrags, leafs |-> S.leafs,
                   entefrag |-> S.ents[ent], lastlink |-> 0,
                   topnode |-> NullRef],
                  w, ent, emins, emaxs, root)
    IN [free |-> st.free, efrags |-> st.efrags, leafs |-> st.leafs,
        ents |-> [S.ents EXCEPT ![ent] = st.entefrag],
        lastlink |-> st.lastlink, topnode |-> st.topnode]

R_AddEfrags(ent, origin, model) ==
    /\ IF ~cl_set \/ model = <<>>
       THEN UNCHANGED <<free_efrags, efrags, leaf_efrags, ent_efrag,
                        ent_topnode, r_addent, lastlink, r_pefragtopnode,
                        r_emins, r_emaxs, ehist>>
       ELSE
           LET emins == VecAdd(origin, model[1].mins)
               emaxs == VecAdd(origin, model[1].maxs)
           IN \E st \in {AddEfragsTo(EState, world, ent, emins, emaxs)} :
              /\ r_addent' = ent
              /\ r_emins' = emins
              /\ r_emaxs' = emaxs
              /\ free_efrags' = st.free
              /\ efrags' = st.efrags
              /\ leaf_efrags' = st.leafs
              /\ ent_efrag' = st.ents
              /\ lastlink' = st.lastlink
              /\ r_pefragtopnode' = st.topnode
              /\ ent_topnode' = [ent_topnode EXCEPT ![ent] = st.topnode]
              /\ ehist' = EHist("add", ent, ent_efrag[ent] = 0)
    /\ UNCHANGED <<cl_set, world, loaderVars, boxVars, hostVars>>

\* the walk of R_RemoveEfrags along a leaf chain from record prev: the
\* first record whose leafnext is ef, 0 when the chain ends before one
RECURSIVE FindPrev(_, _, _, _)
FindPrev(pool, prev, ef, fuel) ==
    IF prev = 0 \/ fuel = 0 THEN 0
    ELSE IF pool[prev].leafnext = ef THEN prev
    ELSE FindPrev(pool, pool[prev].leafnext, ef, fuel - 1)

\* variant: the record stays on the chain of its leaf
UnlinkFromLeaf_Keep(st, ef) == st

\* variant: a record is unlinked only when it heads the chain of its leaf
UnlinkFromLeaf_HeadOnly(st, ef) ==
    LET leaf == st.efrags[ef].leaf
        l == leaf.idx + 1
    IN IF leaf.kind = "null" THEN st
       ELSE IF st.leafs[l] = ef
       THEN [st EXCEPT !.leafs[l] = st.efrags[ef].leafnext]
       ELSE st

\* the leaf chain heads and records after unlinking record ef from the
\* chain of its leaf
UnlinkFromLeaf(st, ef) ==
    LET leaf == st.efrags[ef].leaf
        l == leaf.idx + 1
    IN IF leaf.kind = "null" THEN st
       ELSE IF st.leafs[l] = 0 THEN st
       ELSE IF st.leafs[l] = ef
       THEN [st EXCEPT !.leafs[l] = st.efrags[ef].leafnext]
       ELSE LET prev == FindPrev(st.efrags, st.leafs[l], ef, MaxEfrags + 1)
            IN IF prev = 0 THEN st
               ELSE [st EXCEPT
                        !.efrags[prev].leafnext = st.efrags[ef].leafnext]

\* the loop of R_RemoveEfrags from record ef on
RECURSIVE RemoveLoop(_, _, _)
RemoveLoop(st, ef, fuel) ==
    IF ef = 0 \/ fuel = 0 THEN st
    ELSE
        LET s1 == UnlinkFromLeaf(st, ef)
            next == s1.efrags[ef].entnext
            s2 == [s1 EXCEPT !.efrags[ef].entnext = s1.free, !.free = ef]
        IN RemoveLoop(s2, next, fuel - 1)

\* the lists after R_RemoveEfrags has removed entity ent, from the lists S
RemoveEfragsFrom(S, ent) ==
    LET st == RemoveLoop([free |-> S.free, efrags |-> S.efrags,
                          leafs |-> S.leafs], S.ents[ent], MaxEfrags)
    IN [free |-> st.free, efrags |-> st.efrags, leafs |-> st.leafs,
        ents |-> [S.ents EXCEPT ![ent] = 0]]

R_RemoveEfrags(ent) ==
    /\ IF ~cl_set
       THEN UNCHANGED <<free_efrags, efrags, leaf_efrags, ent_efrag, ehist>>
       ELSE
           \E st \in {RemoveEfragsFrom(EState, ent)} :
              /\ free_efrags' = st.free
              /\ efrags' = st.efrags
              /\ leaf_efrags' = st.leafs
              /\ ent_efrag' = st.ents
              /\ ehist' = EHist("remove", ent,
                                ehist.op = "add" /\ ehist.ent = ent
                                /\ ehist.fresh)
    /\ UNCHANGED <<cl_set, world, ent_topnode, r_addent, lastlink,
                   r_pefragtopnode, r_emins, r_emaxs, loaderVars, boxVars, hostVars>>

EfragNext ==
    \/ R_Efrag_SetExternals
    \/ \E ent \in Ents, origin \in Origins, model \in EntModels :
          R_AddEfrags(ent, origin, model)
    \/ \E ent \in Ents : R_RemoveEfrags(ent)

(***************************************************************************)
(* The classifier applied to one plane and one box                         *)
(***************************************************************************)
\* largest absolute plane distance
MaxDist == 2

Coords == {-1, 1}
Components == {-1, 0, 1}
Normals == {<<x, y, z>> : x \in Components, y \in Components, z \in Components}
AxisNormals == {n \in Normals : n[1] * n[1] + n[2] * n[2] + n[3] * n[3] = 1}
PlaneTypes == 0..3

\* plane distances: the numbers up to MaxDist, and NaN
Dists == {Num(d) : d \in (0 - MaxDist)..MaxDist} \cup {NaN}

\* planes as the plane loader builds them, and planes with an axis-aligned
\* normal under every sign mask
BoxPlanes ==
    {MPlane(n, d, t) : n \in Normals, d \in Dists, t \in PlaneTypes}
    \cup {[normal |-> n, dist |-> d, type |-> t, signbits |-> sb] :
             n \in AxisNormals, d \in Dists, t \in PlaneTypes, sb \in 0..7}

Boxes ==
    {b \in [mins : Coords \X Coords \X Coords, maxs : Coords \X Coords \X Coords] :
        \A i \in 1..3 : b.mins[i] <= b.maxs[i]}

BoxInit(planes, boxes) ==
    /\ box_p \in planes
    /\ \E b \in boxes : box_mins = b.mins /\ box_maxs = b.maxs
    /\ box_sides = -1

\* one plane and one box, for the specifications that never classify
BoxIdle ==
    BoxInit({MPlane(<<1, 0, 0>>, Num(0), 0)},
            {[mins |-> <<-1, -1, -1>>, maxs |-> <<1, 1, 1>>]})

\* a byte source without files, for the specifications that never load
NoPaks == {Pak(<<>>, <<>>, <<>>)}

Classify ==
    /\ box_sides = -1
    /\ box_sides' = BOX_ON_PLANE_SIDE(box_mins, box_maxs, box_p)
    /\ UNCHANGED <<box_p, box_mins, box_maxs, loaderVars, efragVars, hostVars>>

(***************************************************************************)
(* Server host (host_server: Host_Init_Server, Host_ServerFrame,           *)
(* SV_CheckForNewClients, SV_DropClient, Host_Shutdown_Server)             *)
(*                                                                         *)
(* Client slot k of the code is svs_clients[k + 1].  Sockets are numbered  *)
(* from 1; netconnection 0 is null.  Of a message buffer the model keeps   *)
(* cursize and the bytes of data below cursize that lie inside the array.  *)
(* The clocks count in whole ticks.                                        *)
(***************************************************************************)
\* largest -maxclients the model configures (the program's default is 16)
MaxClients == 2

\* number of connections the driver accepts during a run
MaxSocks == 3

\* length of a client's message array and its maxsize (the program's value
\* is 8192)
maxsize == 16

\* largest value the clocks reach
MaxTime == 3

\* the frame times the server loop passes
FrameTimes == {0, 1, 2}

svc_updatename == 13
svc_updatefrags == 14
svc_updatecolors == 17

\* a message buffer as Host_Init_Server allocates it
NewMessage == [data |-> <<>>, cursize |-> 0, maxsize |-> maxsize]

\* msg.data[msg.cursize++] = val & 0xff: a store at or past the end of the
\* array is dropped, the cursor advances all the same
MSG_WriteByte(msg, val) ==
    [msg EXCEPT !.data = IF msg.cursize < maxsize
                         THEN Append(@, val % 256) ELSE @,
                !.cursize = @ + 1]

MSG_WriteShort(msg, val) ==
    MSG_WriteByte(MSG_WriteByte(msg, val % 256), (val \div 256) % 256)

\* the character codes of s, then the terminator
RECURSIVE MSG_WriteString(_, _)
MSG_WriteString(msg, s) ==
    IF s = <<>> THEN MSG_WriteByte(msg, 0)
    ELSE MSG_WriteString(MSG_WriteByte(msg, Head(s)), Tail(s))

\* a client slot as Host_Init_Server allocates it
NewClient ==
    [active |-> FALSE, spawned |-> FALSE, dropasap |-> FALSE,
     netconnection |-> 0, name |-> "", colors |-> 0, old_frags |-> 0,
     message |-> NewMessage]

HHist(op, before, pending, afterCheck) ==
    [op |-> op, before |-> before, pending |-> pending,
     afterCheck |-> afterCheck]

FHist(tick, active, paused, frametime, svtime, hosttime, gone, ready, failed,
      afterRun, afterSend) ==
    [tick |-> tick, active |-> active, paused |-> paused,
     frametime |-> frametime, sv_time |-> svtime, host_time |-> hosttime,
     gone |-> gone, ready |-> ready, failed |-> failed,
     afterRun |-> afterRun, afterSend |-> afterSend]

NoFrame == FHist(FALSE, FALSE, FALSE, 0, 0, 0, {}, {}, {}, <<>>, <<>>)

\* the module state of the host before Host_Init_Server
HostIdle ==
    /\ host_inited = FALSE
    /\ sv_active = FALSE
    /\ svs_maxclients = 1
    /\ svs_clients = <<>>
    /\ net_listening = FALSE
    /\ net_pending = <<>>
    /\ net_closed = {}
    /\ net_next = 1
    /\ hhist = HHist("none", <<>>, <<>>, <<>>)
    /\ sv_paused = FALSE
    /\ sv_time = 0
    /\ sv_frametime = 0
    /\ host_frametime = 0
    /\ host_time = 0
    /\ net_closelog = <<>>
    /\ fhist = NoFrame

Host_Init_Server(maxClients) ==
    /\ ~host_inited
    /\ host_inited' = TRUE
    /\ svs_maxclients' = maxClients
    /\ svs_clients' = [i \in 1..maxClients |-> NewClient]
    /\ net_listening' = TRUE
    /\ host_time' = 1
    /\ hhist' = HHist("Host_Init_Server", svs_clients, <<>>, <<>>)
    /\ UNCHANGED <<sv_active, net_pending, net_closed, net_next, sv_paused,
                   sv_time, sv_frametime, host_frametime, net_closelog,
                   fhist, loaderVars, efragVars, boxVars>>

SV_SpawnServer ==
    /\ host_inited
    /\ ~sv_active
    /\ net_listening
    /\ sv_active' = TRUE
    /\ sv_paused' = FALSE
    /\ sv_time' = 1
    /\ hhist' = HHist("SV_SpawnServer", svs_clients, <<>>, <<>>)
    /\ UNCHANGED <<host_inited, svs_maxclients, svs_clients, net_listening,
                   net_pending, net_closed, net_next, sv_frametime,
                   host_frametime, host_time, net_closelog, fhist,
                   loaderVars, efragVars, boxVars>>

\* the driver accepts a connection and queues its socket
NewConnection ==
    /\ net_listening
    /\ net_next <= MaxSocks
    /\ net_pending' = Append(net_pending, net_next)
    /\ net_next' = net_next + 1
    /\ UNCHANGED <<host_inited, sv_active, svs_maxclients, svs_clients,
                   net_listening, net_closed, hhist, clockVars, net_closelog,
                   fhist, loaderVars, efragVars, boxVars>>

\* net_drivers[0].Close(sock) on st = [clients, closed, log]
Close(st, sock) ==
    [st EXCEPT !.closed = @ \cup {sock}, !.log = Append(@, sock)]

\* variant: when no slot is free, slot 0 is taken again
FreeSlot_Reuse(clients, maxclients) ==
    IF \E i \in 0..(maxclients - 1) : ~clients[i + 1].active
    THEN CHOOSE i \in 0..(maxclients - 1) :
             /\ ~clients[i + 1].active
             /\ \A j \in 0..(i - 1) : clients[j + 1].active
    ELSE IF maxclients > 0 THEN 0 ELSE -1

\* the first slot below maxclients that is not active, -1 when there is none
FreeSlot(clients, maxclients) ==
    IF \E i \in 0..(maxclients - 1) : ~clients[i + 1].active
    THEN CHOOSE i \in 0..(maxclients - 1) :
             /\ ~clients[i + 1].active
             /\ \A j \in 0..(i - 1) : clients[j + 1].active
    ELSE -1

\* the slot SV_CheckForNewClients fills for sock
Connected(client, sock) ==
    [client EXCEPT !.active = TRUE, !.spawned = FALSE,
                   !.netconnection = sock, !.name = "unnamed",
                   !.colors = 0,
                   !.message = [@ EXCEPT !.cursize = 0, !.data = <<>>]]

\* SV_CheckForNewClients on st = [clients, closed, log], handed the sockets
\* of pending one after the other
RECURSIVE SV_CheckForNewClients(_, _, _)
SV_CheckForNewClients(st, maxclients, pending) ==
    IF pending = <<>> THEN st
    ELSE
        LET sock == Head(pending)
            clientNum == FreeSlot(st.clients, maxclients)
        IN IF clientNum = -1
           THEN SV_CheckForNewClients(Close(st, sock), maxclients,
                                      Tail(pending))
           ELSE SV_CheckForNewClients(
                    [st EXCEPT !.clients[clientNum + 1] =
                                   Connected(@, sock)],
                    maxclients, Tail(pending))

\* the bytes of the three notifications SV_DropClient writes to a client
DropNoticeSize == 10

\* the three notifications SV_DropClient writes for slot clientNum
DropNotice(msg, clientNum) ==
    LET m1 == MSG_WriteByte(msg, svc_updatename)
        m2 == MSG_WriteByte(m1, clientNum)
        m3 == MSG_WriteString(m2, <<>>)
        m4 == MSG_WriteByte(m3, svc_updatefrags)
        m5 == MSG_WriteByte(m4, clientNum)
        m6 == MSG_WriteShort(m5, 0)
        m7 == MSG_WriteByte(m6, svc_updatecolors)
        m8 == MSG_WriteByte(m7, clientNum)
    IN MSG_WriteByte(m8, 0)

\* SV_DropClient on st = [clients, closed, log]
SV_DropClient(st, maxclients, clientNum) ==
    IF ~InRange(st.clients, clientNum) THEN st
    ELSE IF ~st.clients[clientNum + 1].active THEN st
    ELSE
        LET c == st.clients[clientNum + 1]
            st1 == IF c.netconnection # 0 THEN Close(st, c.netconnection)
                   ELSE st
            freed == [c EXCEPT !.netconnection = 0, !.active = FALSE,
                               !.name = "", !.old_frags = -999999,
                               !.spawned = FALSE, !.dropasap = FALSE]
            dropped == [st1.clients EXCEPT ![clientNum + 1] = freed]
        IN [st1 EXCEPT !.clients =
                [i \in 1..Len(dropped) |->
                    IF i <= maxclients /\ dropped[i].active
                    THEN [dropped[i] EXCEPT
                             !.message = DropNotice(@, clientNum)]
                    ELSE dropped[i]]]

\* SV_RunClients from slot i on; gone holds the slots whose connection
\* QGetMessage reports as lost
RECURSIVE SV_RunClients(_, _, _, _)
SV_RunClients(st, maxclients, gone, i) ==
    IF i >= maxclients THEN st
    ELSE
        LET c == st.clients[i + 1]
        IN IF c.active /\ c.netconnection # 0 /\ i \in gone
           THEN SV_RunClients(SV_DropClient(st, maxclients, i), maxclients,
                              gone, i + 1)
           ELSE SV_RunClients(st, maxclients, gone, i + 1)

\* variant: the buffer is emptied only when the send succeeded
SendReliable_KeepFailed(clients, maxclients, ready, failed) ==
    [i \in 1..Len(clients) |->
        LET c == clients[i]
        IN IF /\ i <= maxclients
              /\ c.active /\ c.netconnection # 0 /\ c.spawned
              /\ (i - 1) \in ready
              /\ c.message.cursize > 0
           THEN IF (i - 1) \in failed
                THEN [c EXCEPT !.dropasap = TRUE]
                ELSE [c EXCEPT !.message =
                                   [@ EXCEPT !.cursize = 0, !.data = <<>>]]
           ELSE c]

\* the first loop of SV_SendClientMessages: ready holds the slots whose
\* connection can send, failed those whose send fails
SendReliable(clients, maxclients, ready, failed) ==
    [i \in 1..Len(clients) |->
        LET c == clients[i]
        IN IF /\ i <= maxclients
              /\ c.active /\ c.netconnection # 0 /\ c.spawned
              /\ (i - 1) \in ready
              /\ c.message.cursize > 0
           THEN [c EXCEPT !.dropasap = IF (i - 1) \in failed THEN TRUE ELSE @,
                          !.message = [@ EXCEPT !.cursize = 0, !.data = <<>>]]
           ELSE c]

\* the second loop of SV_SendClientMessages, from slot i on
RECURSIVE DropMarked(_, _, _)
DropMarked(st, maxclients, i) ==
    IF i >= maxclients THEN st
    ELSE IF st.clients[i + 1].dropasap
    THEN DropMarked(SV_DropClient(st, maxclients, i), maxclients, i + 1)
    ELSE DropMarked(st, maxclients, i + 1)

\* slots that SV_SendClientMessages tries to send to
Sendable(clients, maxclients) ==
    {i \in 0..(maxclients - 1) :
        /\ clients[i + 1].active
        /\ clients[i + 1].netconnection # 0
        /\ clients[i + 1].spawned}

\* variant: the clock of the server stands still
SV_Physics_Still(time, frametime) == time

\* sv.time += sv.frametime
SV_Physics(time, frametime) == time + frametime

\* slots whose connection QGetMessage can report as lost
Readable(clients, maxclients) ==
    {i \in 0..(maxclients - 1) :
        clients[i + 1].active /\ clients[i + 1].netconnection # 0}

\* one frame: nothing when the server is not active; otherwise every queued
\* socket is handed out, the clients are read (gone: the slots whose
\* connection is lost), the clock of the server advances unless it is
\* paused, the messages are sent (ready: the slots that can send, failed:
\* those whose send fails)
Host_ServerFrame(frametime) ==
    IF ~sv_active
    THEN /\ fhist' = FHist(~fhist.tick, FALSE, sv_paused, frametime, sv_time,
                           host_time, {}, {}, {}, svs_clients, svs_clients)
         /\ UNCHANGED <<host_inited, sv_active, svs_maxclients, svs_clients,
                        net_listening, net_pending, net_closed, net_next,
                        hhist, clockVars, net_closelog, loaderVars,
                        efragVars, boxVars>>
    ELSE /\ host_time + frametime <= MaxTime
         /\ sv_time + frametime <= MaxTime
         /\ host_frametime' = frametime
         /\ sv_frametime' = frametime
         /\ \E s1 \in {SV_CheckForNewClients(
                          [clients |-> svs_clients, closed |-> net_closed,
                           log |-> net_closelog],
                          svs_maxclients, net_pending)} :
            \E gone \in SUBSET Readable(s1.clients, svs_maxclients) :
            \E s2 \in {SV_RunClients(s1, svs_maxclients, gone, 0)} :
            \E ready \in SUBSET Sendable(s2.clients, svs_maxclients) :
            \E failed \in SUBSET {i \in ready :
                                      s2.clients[i + 1].message.cursize > 0} :
            \E sent \in {SendReliable(s2.clients, svs_maxclients, ready,
                                       failed)} :
            \E s3 \in {DropMarked([s2 EXCEPT !.clients = sent],
                                  svs_maxclients, 0)} :
               /\ svs_clients' = s3.clients
               /\ net_closed' = s3.closed
               /\ net_closelog' = s3.log
               /\ hhist' = HHist("Host_ServerFrame", svs_clients,
                                 net_pending, s1.clients)
               /\ fhist' = FHist(~fhist.tick, TRUE, sv_paused, frametime,
                                 sv_time, host_time, gone, ready, failed,
                                 s2.clients, sent)
         /\ sv_time' = IF ~sv_paused THEN SV_Physics(sv_time, frametime)
                       ELSE sv_time
         /\ host_time' = host_time + frametime
         /\ net_pending' = <<>>
         /\ UNCHANGED <<host_inited, sv_active, svs_maxclients,
                        net_listening, net_next, sv_paused, loaderVars,
                        efragVars, boxVars>>

\* the drop loop of Host_Shutdown_Server, from slot i on
RECURSIVE DropAll(_, _, _)
DropAll(st, maxclients, i) ==
    IF i >= Len(st.clients) THEN st
    ELSE DropAll(SV_DropClient(st, maxclients, i), maxclients, i + 1)

Host_Shutdown_Server ==
    /\ host_inited
    /\ net_listening
    /\ \E s1 \in {DropAll([clients |-> svs_clients, closed |-> net_closed,
                           log |-> net_closelog],
                          svs_maxclients, 0)} :
          /\ svs_clients' = s1.clients
          /\ net_closed' = s1.closed
          /\ net_closelog' = s1.log
    /\ net_listening' = FALSE
    /\ sv_active' = FALSE
    /\ hhist' = HHist("Host_Shutdown_Server", svs_clients, <<>>, <<>>)
    /\ UNCHANGED <<host_inited, svs_maxclients, net_pending, net_next,
                   clockVars, fhist, loaderVars, efragVars, boxVars>>

HostNext ==
    \/ \E n \in 0..MaxClients : Host_Init_Server(n)
    \/ SV_SpawnServer
    \/ NewConnection
    \/ \E frametime \in FrameTimes : Host_ServerFrame(frametime)
    \/ Host_Shutdown_Server

\* a slot as SV_CheckForNewClients fills it for socket sock, with the
\* spawned flag and the message the rest of the server left in it: nothing,
\* or the notification of a drop of slot other
ClientStates(sock, other) ==
    {NewClient} \cup
    {[Connected(NewClient, sock) EXCEPT !.spawned = sp, !.message = msg] :
        sp \in BOOLEAN,
        msg \in {NewMessage, DropNotice(NewMessage, other)}}

\* a host that was initialised: slot k free or holding socket k + 1
FrameInit ==
    /\ host_inited = TRUE
    /\ sv_active \in BOOLEAN
    /\ sv_paused \in BOOLEAN
    /\ svs_maxclients = MaxClients
    /\ svs_clients \in
          {t \in [1..MaxClients ->
                     UNION {ClientStates(k, k % MaxClients) :
                               k \in 1..MaxClients}] :
              \A k \in 1..MaxClients :
                  t[k] \in ClientStates(k, k % MaxClients)}
    /\ net_listening = TRUE
    /\ net_pending = <<>>
    /\ net_closed = {}
    /\ net_closelog = <<>>
    /\ net_next = MaxClients + 1
    /\ hhist = HHist("none", <<>>, <<>>, <<>>)
    /\ sv_time = 1
    /\ sv_frametime = 0
    /\ host_frametime = 0
    /\ host_time = 1
    /\ fhist = NoFrame

(***************************************************************************)
(* Specifications                                                          *)
(***************************************************************************)
\* the model loader and its registry
Init ==
    /\ LoaderInit(Paks)
    /\ EfragInit(World0)
    /\ BoxIdle
    /\ HostIdle

Next == LoaderNext

Spec == Init /\ [][Next]_vars

\* the fragment linker over one world
EfragSpecInit ==
    /\ LoaderInit(NoPaks)
    /\ \E w \in Worlds : EfragInit(w)
    /\ BoxIdle
    /\ HostIdle

EfragSpecNext == EfragNext

SpecEfrag == EfragSpecInit /\ [][EfragSpecNext]_vars

\* the fragment linker when its callers add only entities that hold no
\* fragments (an entity is removed before it is added again)
EfragFreshNext ==
    \/ R_Efrag_SetExternals
    \/ \E ent \in Ents, origin \in Origins, model \in EntModels :
          ent_efrag[ent] = 0 /\ R_AddEfrags(ent, origin, model)
    \/ \E ent \in Ents : R_RemoveEfrags(ent)

SpecEfragFresh == EfragSpecInit /\ [][EfragFreshNext]_vars

\* the classifier on every plane and box
BoxSpecInit ==
    /\ LoaderInit(NoPaks)
    /\ EfragInit(World0)
    /\ BoxInit(BoxPlanes, Boxes)
    /\ HostIdle

BoxSpecNext == Classify

SpecBox == BoxSpecInit /\ [][BoxSpecNext]_vars

\* the server host and its network driver
HostSpecInit ==
    /\ LoaderInit(NoPaks)
    /\ EfragInit(World0)
    /\ BoxIdle
    /\ HostIdle

HostSpecNext == HostNext

SpecHost == HostSpecInit /\ [][HostSpecNext]_vars

\* frames that take time, one after another, on a host whose clients may
\* have spawned and whose server may be paused
FrameSpecInit ==
    /\ LoaderInit(NoPaks)
    /\ EfragInit(World0)
    /\ BoxIdle
    /\ FrameInit

FrameSpecNext ==
    \/ NewConnection
    \/ \E frametime \in FrameTimes \ {0} : Host_ServerFrame(frametime)

SpecFrame == FrameSpecInit /\ [][FrameSpecNext]_vars

(***************************************************************************)
(* Properties of the model loader (specification Spec)                     *)
(***************************************************************************)
\* the last call was a load (Mod_ForName or Mod_LoadModel)
LastLoad == last.op \in {"Mod_ForName", "Mod_LoadModel"}

\* the slot that holds name, 0 when no slot does
SlotOf(name) ==
    IF \E i \in 1..mod_numknown : mod_known[i].name = name
    THEN CHOOSE i \in 1..mod_numknown : mod_known[i].name = name
    ELSE 0

\* the last call was a load that obtained the bytes of its file and ended
\* with an exception
LastLoadFailedOnBytes ==
    /\ LastLoad
    /\ last.name \in Names
    /\ last.fetched
    /\ pak[last.name] # <<>>
    /\ last.err # "none"

\* the tables a model exposes
Tables(m) == <<m.planes, m.vertexes, m.leafs, m.nodes, m.clipnodes, m.hulls>>

\* C1: once a load of a name has succeeded, every later load of that name
\* before the next Mod_ClearAll returns the same slot, asks the byte source
\* for nothing, parses nothing and leaves the model as it is.
C1_CachedLoad ==
    [][\A n \in Names :
          (/\ okslot[n] # 0
           /\ last'.op \in {"Mod_ForName", "Mod_LoadModel"}
           /\ last'.name = n)
          => /\ last'.ret = okslot[n]
             /\ ~last'.fetched
             /\ ~last'.parsed
             /\ last'.err = "none"
             /\ mod_known'[okslot[n]] = mod_known[okslot[n]]]_vars

\* a load of a brush model answered from the registry
C1_Witness ==
    /\ LastLoad
    /\ last.name = MapName
    /\ last.ret # 0
    /\ okslot[MapName] = last.ret
    /\ ~last.fetched
    /\ mod_known[last.ret].numplanes > 0

\* C8: when a load that obtained its bytes ends with an exception, the
\* model is not marked loaded, and the next load of that name asks the byte
\* source again and parses again if this one parsed.
C8_FailedParseNotCached ==
    LastLoadFailedOnBytes =>
        LET i == SlotOf(last.name)
        IN /\ i # 0
           /\ ~mod_known[i].loaded
           /\ \A crash \in BOOLEAN :
                 \A r \in {Mod_LoadModel(mod_known[i], crash)} :
                    /\ r.fetched
                    /\ last.parsed => r.parsed
                    /\ r.err = last.err

\* a parse that threw after the plane table was built
C8_Witness ==
    /\ LastLoadFailedOnBytes
    /\ last.parsed
    /\ last.err = "TypeError"
    /\ mod_known[SlotOf(last.name)].numplanes > 0

\* the file the last load read
LastFile == pak[last.name][1]

\* the last call was a load that read a file of at least 4 bytes
LastLoadReadFile ==
    /\ LastLoad
    /\ last.name \in Names
    /\ last.fetched
    /\ pak[last.name] # <<>>
    /\ LastFile.byteLength >= 4

\* C7: a load of a map file whose version tag is not 29 ends with the fatal
\* format error and leaves the model not loaded and without tables.
C7_VersionMismatchFails ==
    (/\ LastLoadReadFile
     /\ last.name = MapName
     /\ LastFile.magic # BSPVERSION)
    => /\ last.err = "Sys_Error"
       /\ ~mod_known[SlotOf(last.name)].loaded
       /\ Tables(mod_known[SlotOf(last.name)]) = Tables(NewModel)

\* C9: a load that obtained its bytes and ended with an exception leaves
\* the tables of the slot of that name as they were before the load.
C9_NoPartialTables ==
    [][\A i \in 1..MAX_MOD_KNOWN :
          (/\ last'.op \in {"Mod_ForName", "Mod_LoadModel"}
           /\ last'.name \in Names
           /\ last'.name = mod_known'[i].name
           /\ last'.fetched
           /\ pak[last'.name] # <<>>
           /\ last'.err # "none")
          => Tables(mod_known'[i]) = Tables(mod_known[i])]_vars

\* the record regions and their record sizes
RecordLumps ==
    {<<"planes", DPLANE_SIZE>>, <<"vertexes", DVERTEX_SIZE>>,
     <<"leafs", DLEAF_SIZE>>, <<"nodes", DNODE_SIZE>>,
     <<"clipnodes", DCLIPNODE_SIZE>>, <<"models", DMODEL_SIZE>>}

\* C10: a load of a brush file in which the length of some record region is
\* not a multiple of the record size ends with a bounds error and the model
\* is not marked loaded.
C10_NonMultipleFails ==
    (/\ LastLoadReadFile
     /\ LastFile.magic = BSPVERSION
     /\ LastFile.byteLength >= HeaderSize
     /\ \E l \in RecordLumps : LastFile.lumps[l[1]].filelen % l[2] # 0)
    => /\ last.err = "RangeError"
       /\ ~mod_known[SlotOf(last.name)].loaded

\* C3: in every loaded brush model hull 0 has one clipnode per node, in
\* order; clipnode k names the plane of node k by its index in the plane
\* table, and each child slot is the index of the child node, the contents
\* of the child leaf, or SOLID for an absent child.
C3_Hull0MirrorsNodes ==
    \A i \in 1..mod_numknown :
        LET m == mod_known[i]
            cn == m.hulls[1].clipnodes.data
        IN (m.loaded /\ m.type = mod_brush /\ m.name = MapName) =>
               /\ Len(cn) = Len(m.nodes)
               /\ \A k \in 1..Len(m.nodes) :
                     /\ m.nodes[k].plane.kind = "plane"
                            => cn[k].planenum = m.nodes[k].plane.idx
                     /\ \A c \in 1..2 :
                           LET ch == m.nodes[k].children[c]
                           IN cn[k].children[c] =
                                  CASE ch.kind = "node" -> ch.idx
                                    [] ch.kind = "leaf" ->
                                           m.leafs[ch.idx + 1].contents
                                    [] OTHER -> CONTENTS_SOLID

\* C11: a load of a brush file whose leaf region holds more than
\* MAX_MAP_LEAFS records ends with the fatal error and the model is not
\* marked loaded.
C11_OverLimitFails ==
    (/\ LastLoadReadFile
     /\ LastFile.magic = BSPVERSION
     /\ LastFile.byteLength >= HeaderSize
     /\ RecordCount(LastFile.lumps["leafs"].filelen, DLEAF_SIZE)
            > MAX_MAP_LEAFS)
    => /\ last.err = "Sys_Error"
       /\ ~mod_known[SlotOf(last.name)].loaded

\* C12: the used slots always hold pairwise distinct non-empty names and
\* are at most MAX_MOD_KNOWN; no step lowers the count of used slots or
\* renames a used slot; and a Mod_FindName that returns normally returns
\* the slot that held the name before the call, with the count unchanged,
\* or, when none did, the next unused slot, which it names.
C12_FindOrCreate ==
    /\ [](/\ mod_numknown <= MAX_MOD_KNOWN
          /\ \A i \in 1..mod_numknown : mod_known[i].name # ""
          /\ \A i, j \in 1..mod_numknown :
                mod_known[i].name = mod_known[j].name => i = j)
    /\ [][/\ mod_numknown' >= mod_numknown
          /\ \A i \in 1..mod_numknown :
                mod_known'[i].name = mod_known[i].name
          /\ (last'.op = "Mod_FindName" /\ last'.err = "none") =>
                IF SlotOf(last'.name) # 0
                THEN /\ last'.ret = SlotOf(last'.name)
                     /\ mod_numknown' = mod_numknown
                ELSE /\ last'.ret = mod_numknown + 1
                     /\ mod_numknown' = mod_numknown + 1
                     /\ mod_known'[last'.ret].name = last'.name]_vars

\* Mod_FindName returned the first slot, which held the name, while another
\* slot was in use
C12_Witness ==
    /\ last.op = "Mod_FindName"
    /\ last.err = "none"
    /\ last.ret = 1
    /\ mod_numknown = 2
    /\ mod_known[1].name = last.name

\* C13: a Mod_FindName or Mod_ForName with the empty name, or with a name
\* that no slot holds while MAX_MOD_KNOWN slots are in use, ends with the
\* fatal error and the process; the count of used slots and the name of
\* every slot stay as they were.
C13_FindNameFatal ==
    [][(/\ last'.op \in {"Mod_FindName", "Mod_ForName"}
        /\ \/ last'.name = ""
           \/ SlotOf(last'.name) = 0 /\ mod_numknown = MAX_MOD_KNOWN)
       => /\ last'.err = "Sys_Error"
          /\ last'.ret = 0
          /\ exited'
          /\ mod_numknown' = mod_numknown
          /\ \A i \in 1..MAX_MOD_KNOWN :
                mod_known'[i].name = mod_known[i].name]_vars

\* Mod_FindName has failed on a new name with every slot in use
C13_Witness ==
    /\ last.op = "Mod_FindName"
    /\ last.err = "Sys_Error"
    /\ last.name \in Names
    /\ SlotOf(last.name) = 0
    /\ mod_numknown = MAX_MOD_KNOWN
    /\ exited

\* C14: a Mod_ClearAll leaves every used slot not loaded and otherwise as
\* it was (name, tables, hulls), leaves the unused slots as they were, and
\* leaves the count of used slots, loadmodel, mod_base and the byte source
\* as they were.
C14_ClearAllKeepsTables ==
    [][last'.op = "Mod_ClearAll" =>
          /\ \A i \in 1..MAX_MOD_KNOWN :
                IF i <= mod_numknown
                THEN /\ ~mod_known'[i].loaded
                     /\ [mod_known'[i] EXCEPT !.loaded = mod_known[i].loaded]
                            = mod_known[i]
                ELSE mod_known'[i] = mod_known[i]
          /\ UNCHANGED <<mod_numknown, loadmodel, mod_base, pak>>]_vars

\* Mod_ClearAll was called on a loaded brush model: the flag is cleared and
\* the tables are still there
C14_Witness ==
    /\ last.op = "Mod_ClearAll"
    /\ SlotOf(MapName) # 0
    /\ ~mod_known[SlotOf(MapName)].loaded
    /\ mod_known[SlotOf(MapName)].numleafs > 0
    /\ mod_known[SlotOf(MapName)].hulls # <<>>
    /\ okslot[MapName] = 0
    /\ loadmodel = SlotOf(MapName)

\* the last call was a load whose file the byte source does not hold
LastLoadNotFound ==
    /\ LastLoad
    /\ last.name \in Names
    /\ last.fetched
    /\ pak[last.name] = <<>>

\* C15: a load whose file the byte source does not hold returns nothing,
\* parses nothing, and either ends normally or ends the process with the
\* fatal error; the model stays not loaded, so that Mod_LoadModel on it asks
\* the byte source again, returning nothing when crash is false and failing
\* fatally when crash is true; and the step leaves the tables of the slot
\* and loadmodel / mod_base as they were.
C15_NotFound ==
    /\ [](LastLoadNotFound =>
             LET i == SlotOf(last.name)
             IN /\ i # 0
                /\ last.ret = 0
                /\ ~last.parsed
                /\ last.err \in {"none", "Sys_Error"}
                /\ exited <=> last.err = "Sys_Error"
                /\ ~mod_known[i].loaded
                /\ \A crash \in BOOLEAN :
                      LET r == Mod_LoadModel(mod_known[i], crash)
                      IN /\ r.fetched
                         /\ ~r.ret
                         /\ r.mod = mod_known[i]
                         /\ r.err = IF crash THEN "Sys_Error" ELSE "none")
    /\ [][\A i \in 1..MAX_MOD_KNOWN :
             (/\ last'.op \in {"Mod_ForName", "Mod_LoadModel"}
              /\ last'.name \in Names
              /\ last'.name = mod_known'[i].name
              /\ last'.fetched
              /\ pak[last'.name] = <<>>)
             => /\ Tables(mod_known'[i]) = Tables(mod_known[i])
                /\ UNCHANGED <<loadmodel, mod_base>>]_vars

\* a second slot was asked for a file no pack holds, without crash: the
\* load returned nothing and the process goes on
C15_Witness ==
    /\ LastLoadNotFound
    /\ last.err = "none"
    /\ ~exited
    /\ SlotOf(last.name) = 2
    /\ mod_known[1].loaded

\* C20: in every brush model that is marked loaded, every leaf has a
\* negative contents and every node has the contents 0.
C20_ContentsTellLeafFromNode ==
    \A i \in 1..mod_numknown :
        LET m == mod_known[i]
        IN (m.loaded /\ m.type = mod_brush) =>
               /\ \A k \in 1..Len(m.leafs) : m.leafs[k].contents < 0
               /\ \A k \in 1..Len(m.nodes) : m.nodes[k].contents = 0

(***************************************************************************)
(* Properties of the fragment linker (specification SpecEfrag)             *)
(***************************************************************************)
\* the lists after R_AddEfrags of entity e at origin o with the bounds b
\* and then R_RemoveEfrags of e, from the lists S
AddThenRemove(S, e, o, b) ==
    RemoveEfragsFrom(
        AddEfragsTo(S, world, e, VecAdd(o, b.mins), VecAdd(o, b.maxs)), e)

\* C2: in every reachable state, for every entity whose fragment chain is
\* empty and every box, R_AddEfrags followed by R_RemoveEfrags gives the
\* free list its length back, gives every leaf its chain back, and leaves
\* no record of a leaf chain on the free list.
C2_AddRemoveRestores ==
    cl_set =>
        \A e \in Ents, o \in Origins, m \in EntModels :
            (ent_efrag[e] = 0 /\ m # <<>>) =>
                LET S2 == AddThenRemove(EState, e, o, m[1])
                    free2 == FreeListOf(S2)
                    chains2 == LeafChainsOf(S2)
                IN /\ Len(free2) = Len(FreeListOf(EState))
                   /\ chains2 = LeafChainsOf(EState)
                   /\ S2.ents[e] = 0
                   /\ \A l \in DOMAIN chains2 :
                         \A k \in 1..Len(chains2[l]) :
                             \A j \in 1..Len(free2) :
                                 chains2[l][k] # free2[j]

\* an entity with an empty chain was added to a leaf that holds a fragment
\* of another entity and was removed directly afterwards, and its record is
\* back on the free list
C2_Witness ==
    /\ ehist.op = "remove"
    /\ ehist.fresh
    /\ free_efrags # 0
    /\ efrags[free_efrags].entity = ehist.ent
    /\ \E e \in Ents \ {ehist.ent} :
          /\ ent_efrag[e] # 0
          /\ efrags[ent_efrag[e]].leaf = ent_topnode[ehist.ent]
          /\ efrags[free_efrags].leaf = ent_topnode[ehist.ent]

(***************************************************************************)
(* Properties of the classifier (specification SpecBox)                    *)
(***************************************************************************)
Classified == box_sides # -1

\* the unit normal of the axis that plane type t < 3 names
UnitNormal(t) ==
    <<IF t = 0 THEN 1 ELSE 0, IF t = 1 THEN 1 ELSE 0, IF t = 2 THEN 1 ELSE 0>>

\* normal . corner for the box corner farthest along the normal and for the
\* corner nearest along it, taken from the signs of the normal itself
FarDot(n, mins, maxs) ==
    Dot(n, IF n[1] >= 0 THEN maxs ELSE mins, IF n[2] >= 0 THEN maxs ELSE mins,
        IF n[3] >= 0 THEN maxs ELSE mins)
NearDot(n, mins, maxs) ==
    Dot(n, IF n[1] >= 0 THEN mins ELSE maxs, IF n[2] >= 0 THEN mins ELSE maxs,
        IF n[3] >= 0 THEN mins ELSE maxs)

BoxFar == FarDot(box_p.normal, box_mins, box_maxs)
BoxNear == NearDot(box_p.normal, box_mins, box_maxs)

Bit0(sides) == sides % 2 = 1
Bit1(sides) == (sides \div 2) % 2 = 1

\* bit i of the sign mask agrees with the sign of every nonzero component
MaskMatches(p) ==
    \A i \in 1..3 :
        p.normal[i] # 0 =>
            (((p.signbits \div (2 ^ (i - 1))) % 2 = 1) <=> p.normal[i] < 0)

\* the sign mask is the loader's, and a plane of type < 3 has the unit
\* normal of its axis
WellFormedPlane(p) ==
    /\ p.signbits = SignBits(p.normal)
    /\ p.type < 3 => p.normal = UnitNormal(p.type)

\* C4: for a plane with an axis-aligned normal, on the fast path (type < 3,
\* unit normal of the axis) and on every branch of the general path whose
\* sign mask matches the normal, the result is 1 for a box strictly in
\* front, 2 for a box strictly behind and 3 for a box that straddles; and
\* the general path on a positive axis normal returns what the fast path
\* returns for the plane of that axis.
C4_AxisAlignedSides ==
    (/\ Classified
     /\ box_p.normal \in AxisNormals
     /\ MaskMatches(box_p)
     /\ box_p.type < 3 => box_p.normal = UnitNormal(box_p.type))
    => /\ FloatLe(box_p.dist, BoxNear - 1) => box_sides = 1
       /\ FloatGt(box_p.dist, BoxFar) => box_sides = 2
       /\ (FloatGt(box_p.dist, BoxNear) /\ FloatLe(box_p.dist, BoxFar - 1))
              => box_sides = 3
       /\ \A t \in 0..2 :
             (/\ box_p.type >= 3
              /\ box_p.normal = UnitNormal(t)
              /\ \/ FloatLe(box_p.dist, BoxNear - 1)
                 \/ FloatGt(box_p.dist, BoxFar)
                 \/ FloatGt(box_p.dist, BoxNear)
                       /\ FloatLe(box_p.dist, BoxFar - 1))
             => box_sides =
                    AxialSide(box_mins, box_maxs, [box_p EXCEPT !.type = t])

\* the branch of sign mask 7 classified a box that straddles a plane whose
\* normal is the negative y axis
C4_Witness ==
    /\ Classified
    /\ box_p.type = 3
    /\ box_p.normal = <<0, -1, 0>>
    /\ box_p.signbits = 7
    /\ box_p.dist = Num(0)
    /\ box_mins[2] < 0
    /\ box_maxs[2] > 0
    /\ box_sides = 3

\* C5 as stated: for every well-formed plane and every box, bit 0 of the
\* result is set iff the farthest corner is on or in front of the plane and
\* bit 1 iff the nearest corner is strictly behind it, on the fast path as
\* on the general path.
C5_BitsAsStated ==
    (Classified /\ WellFormedPlane(box_p))
    => /\ Bit0(box_sides) <=> FloatLe(box_p.dist, BoxFar)
       /\ Bit1(box_sides) <=> FloatGt(box_p.dist, BoxNear)

\* C5: for every well-formed plane whose dist is a number and every box,
\* bit 1 of the result is set iff the nearest corner is strictly behind the
\* plane; bit 0 is set iff the farthest corner is on or in front of the
\* plane on the general path, and iff the farthest corner is strictly in
\* front or the nearest corner is on or in front on the fast path.
C5_Bits ==
    (Classified /\ WellFormedPlane(box_p) /\ box_p.dist # NaN)
    => /\ Bit1(box_sides) <=> FloatGt(box_p.dist, BoxNear)
       /\ box_p.type >= 3
              => (Bit0(box_sides) <=> FloatLe(box_p.dist, BoxFar))
       /\ box_p.type < 3
              => (Bit0(box_sides) <=>
                      \/ FloatLe(box_p.dist, BoxFar - 1)
                      \/ FloatLe(box_p.dist, BoxNear))

\* the fast path classified a box whose far face touches the plane and
\* whose near face is behind it
C5_Witness ==
    /\ Classified
    /\ WellFormedPlane(box_p)
    /\ box_p.type < 3
    /\ box_p.dist = Num(BoxFar)
    /\ BoxNear < BoxFar
    /\ box_sides = 2

RECURSIVE Reached(_, _, _, _)
Reached(w, emins, emaxs, node) ==
    IF node.kind = "null" THEN <<>>
    ELSE IF node.kind = "leaf"
    THEN (IF w.leafs[node.idx + 1] = CONTENTS_SOLID THEN <<>> ELSE <<node>>)
    ELSE
        LET n == w.nodes[node.idx + 1]
            sides == BOX_ON_PLANE_SIDE(emins, emaxs, n.plane)
        IN (IF Bit0(sides)
            THEN Reached(w, emins, emaxs, n.children[1]) ELSE <<>>)
           \o (IF Bit1(sides)
               THEN Reached(w, emins, emaxs, n.children[2]) ELSE <<>>)

\* the root of the world's node tree
RootOf(w) == IF Len(w.nodes) > 0 THEN NodeRef(0) ELSE NullRef

\* the box of an entity at origin o with the model bounds b
BoxMins(o, b) == VecAdd(o, b.mins)
BoxMaxs(o, b) == VecAdd(o, b.maxs)

\* C16: in every reachable state, for every entity and box for which the
\* free list holds at least as many records as the descent reaches leafs
\* other than SOLID, R_AddEfrags takes one record off the free list per
\* reached leaf, in the order of the descent; each names the entity and its
\* leaf and stands at the head of that leaf's chain, before the chain the
\* leaf had; the records taken are the entity's chain (for an entity whose
\* chain was empty, and whenever a leaf is reached); and the chain of every
\* other leaf (SOLID or not reached) is as it was.  With one node splitting
\* an EMPTY leaf from the SOLID leaf, a box wholly on the EMPTY side takes
\* exactly one record.
C16_OneFragmentPerLeaf ==
    cl_set =>
        \A e \in Ents, o \in Origins, m \in EntModels :
            m # <<>> =>
                LET emins == BoxMins(o, m[1])
                    emaxs == BoxMaxs(o, m[1])
                    reached == Reached(world, emins, emaxs, RootOf(world))
                    free == FreeListOf(EState)
                    taken == SubSeq(free, 1, Len(reached))
                    S2 == AddEfragsTo(EState, world, e, emins, emaxs)
                IN Len(free) >= Len(reached) =>
                    /\ FreeListOf(S2)
                           = SubSeq(free, Len(reached) + 1, Len(free))
                    /\ \A k \in 1..Len(reached) :
                          /\ S2.efrags[taken[k]].entity = e
                          /\ S2.efrags[taken[k]].leaf = reached[k]
                          /\ LeafChainOf(S2, reached[k].idx + 1)
                                = <<taken[k]>>
                                  \o LeafChainOf(EState, reached[k].idx + 1)
                    /\ (Len(reached) > 0 \/ ent_efrag[e] = 0)
                          => EntChainOf(S2, e) = taken
                    /\ \A l \in DOMAIN world.leafs :
                          (\A k \in 1..Len(reached) : reached[k].idx + 1 # l)
                          => LeafChainOf(S2, l) = LeafChainOf(EState, l)
                    /\ (world = World1 /\ emins[1] > 0)
                          => Len(reached) = 1 /\ Len(EntChainOf(S2, e)) = 1

\* an entity was added with a box that reaches the empty and the water leaf
\* of the second world: its chain is two records, one at the head of each
\* leaf's chain
C16_Witness ==
    /\ ehist.op = "add"
    /\ world = World2
    /\ Len(EntChainOf(EState, ehist.ent)) = 2
    /\ leaf_efrags[2] = EntChainOf(EState, ehist.ent)[1]
    /\ leaf_efrags[3] = EntChainOf(EState, ehist.ent)[2]
    /\ efrags[leaf_efrags[2]].entity = ehist.ent

\* C17: in every reachable state, for every entity and box for which the
\* free list holds fewer records than the descent reaches leafs other than
\* SOLID, R_AddEfrags ends with an empty free list; the leafs reached while
\* records were left get them at the head of their chains; every leaf
\* reached afterwards keeps its chain; every other entity keeps its
\* chain; and with no free record at all nothing changes: the records, every
\* leaf's chain and the entity's own chain are as they were.
C17_PoolExhausted ==
    cl_set =>
        \A e \in Ents, o \in Origins, m \in EntModels :
            m # <<>> =>
                LET emins == BoxMins(o, m[1])
                    emaxs == BoxMaxs(o, m[1])
                    reached == Reached(world, emins, emaxs, RootOf(world))
                    free == FreeListOf(EState)
                    S2 == AddEfragsTo(EState, world, e, emins, emaxs)
                IN Len(free) < Len(reached) =>
                    /\ S2.free = 0
                    /\ \A k \in 1..Len(reached) :
                          LET l == reached[k].idx + 1
                          IN IF k <= Len(free)
                             THEN LeafChainOf(S2, l)
                                    = <<free[k]>> \o LeafChainOf(EState, l)
                             ELSE LeafChainOf(S2, l) = LeafChainOf(EState, l)
                    /\ \A e2 \in Ents \ {e} :
                          EntChainOf(S2, e2) = EntChainOf(EState, e2)
                    /\ Len(free) > 0 => EntChainOf(S2, e) = free
                    /\ Len(free) = 0 =>
                          /\ S2.efrags = efrags
                          /\ S2.leafs = leaf_efrags
                          /\ S2.ents = ent_efrag

\* the last call added an entity whose box reaches two leafs and the free
\* list ran out after the first: the entity holds one record, on the first
\* leaf, and the other entity still holds its own
C17_Witness ==
    /\ ehist.op = "add"
    /\ free_efrags = 0
    /\ Len(Reached(world, r_emins, r_emaxs, RootOf(world))) = 2
    /\ Len(EntChainOf(EState, ehist.ent)) = 1
    /\ efrags[ent_efrag[ehist.ent]].leaf
          = Reached(world, r_emins, r_emaxs, RootOf(world))[1]
    /\ \E e2 \in Ents \ {ehist.ent} : Len(EntChainOf(EState, e2)) = 1

\* x is an element of the sequence seq
InSeq(x, seq) == \E k \in 1..Len(seq) : seq[k] = x

\* every record is on the free list or on the chain of an entity
AllAccounted(S) ==
    \A r \in 1..MaxEfrags :
        InSeq(r, FreeListOf(S)) \/ \E e \in Ents : InSeq(r, EntChainOf(S, e))

\* C18: in every reachable state in which no record is lost, R_AddEfrags of
\* an entity that holds fragments leaves what R_RemoveEfrags followed by
\* R_AddEfrags leaves: none of the earlier fragments is on a leaf's chain
\* unless it is on the entity's new chain, the free list, the entity's
\* chain and every leaf's chain are as long as after remove-then-insert,
\* and no record is lost.
C18_ReinsertRelinks ==
    cl_set =>
        \A e \in Ents, o \in Origins, m \in EntModels :
            (m # <<>> /\ ent_efrag[e] # 0 /\ AllAccounted(EState)) =>
                LET emins == BoxMins(o, m[1])
                    emaxs == BoxMaxs(o, m[1])
                    old == EntChainOf(EState, e)
                    S2 == AddEfragsTo(EState, world, e, emins, emaxs)
                    Ref == AddEfragsTo(RemoveEfragsFrom(EState, e), world, e,
                                       emins, emaxs)
                IN /\ \A k \in 1..Len(old), l \in DOMAIN world.leafs :
                         InSeq(old[k], LeafChainOf(S2, l))
                         => InSeq(old[k], EntChainOf(S2, e))
                   /\ Len(FreeListOf(S2)) = Len(FreeListOf(Ref))
                   /\ Len(EntChainOf(S2, e)) = Len(EntChainOf(Ref, e))
                   /\ \A l \in DOMAIN world.leafs :
                         Len(LeafChainOf(S2, l)) = Len(LeafChainOf(Ref, l))
                   /\ AllAccounted(S2)

\* The interior nodes on the descent from node whose plane the box
\* straddles (classifier result 3), each with its depth below the root.
RECURSIVE Straddled(_, _, _, _, _)
Straddled(w, emins, emaxs, node, depth) ==
    IF node.kind # "node" THEN {}
    ELSE
        LET n == w.nodes[node.idx + 1]
            sides == BOX_ON_PLANE_SIDE(emins, emaxs, n.plane)
        IN (IF sides = 3 THEN {<<node, depth>>} ELSE {})
           \cup (IF Bit0(sides)
                 THEN Straddled(w, emins, emaxs, n.children[1], depth + 1)
                 ELSE {})
           \cup (IF Bit1(sides)
                 THEN Straddled(w, emins, emaxs, n.children[2], depth + 1)
                 ELSE {})

\* the top node the claim names for the box on the world w
TopNodeOf(w, emins, emaxs) ==
    LET st == Straddled(w, emins, emaxs, RootOf(w), 0)
        reached == Reached(w, emins, emaxs, RootOf(w))
    IN IF st # {}
       THEN (CHOOSE s \in st : \A t \in st : s[2] <= t[2])[1]
       ELSE IF Len(reached) > 0 THEN reached[1]
       ELSE NullRef

\* C19 as stated: the topnode is the shallowest straddled node; it is the
\* single leaf other than SOLID when no plane is straddled; and it is null
\* whenever the descent reaches no leaf other than SOLID.
C19_TopNodeAsStated ==
    ehist.op = "add" =>
        LET st == Straddled(world, r_emins, r_emaxs, RootOf(world), 0)
            reached == Reached(world, r_emins, r_emaxs, RootOf(world))
            top == ent_topnode[ehist.ent]
        IN /\ st # {} => \E s \in st : /\ top = s[1]
                                        /\ \A t \in st : s[2] <= t[2]
           /\ (st = {} /\ Len(reached) > 0) => top = reached[1]
           /\ Len(reached) = 0 => top = NullRef

\* C19: while the last call that reached the lists is an R_AddEfrags, the
\* entity's topnode is what the call left in r_pefragtopnode, and for the
\* box of that call it is the one shallowest interior node on the descent
\* whose plane the box straddles; without such a node it is the one leaf
\* other than SOLID that the descent reaches; and it is null when the
\* descent reaches no such leaf.
C19_TopNode ==
    ehist.op = "add" =>
        LET st == Straddled(world, r_emins, r_emaxs, RootOf(world), 0)
            reached == Reached(world, r_emins, r_emaxs, RootOf(world))
        IN /\ ent_topnode[ehist.ent] = r_pefragtopnode
           /\ ent_topnode[ehist.ent] = TopNodeOf(world, r_emins, r_emaxs)
           /\ \A s, t \in st :
                 (s[2] = t[2] /\ \A u \in st : s[2] <= u[2]) => s = t
           /\ st = {} => Len(reached) <= 1

\* the last call added an entity whose box straddles the plane of a node
\* over two solid leafs: its topnode is that node and it holds no fragment
C19_Witness ==
    /\ ehist.op = "add"
    /\ world = World4
    /\ ent_topnode[ehist.ent] = NodeRef(0)
    /\ ent_efrag[ehist.ent] = 0
    /\ Reached(world, r_emins, r_emaxs, RootOf(world)) = <<>>

\* seq without the elements of drop, in the order of seq
Without(seq, drop) == SelectSeq(seq, LAMBDA x : ~InSeq(x, drop))

\* C28: in every reachable state, R_RemoveEfrags of an entity leaves the
\* entity's chain empty, every record of that chain on the free list and on
\* no leaf's chain, every leaf's chain as it was but for those records, and
\* every other entity's chain and the earlier free records as they were.
C28_RemoveUnlinksExactly ==
    cl_set =>
        \A e \in Ents :
            LET S == EState
                mine == EntChainOf(S, e)
                chains == LeafChainsOf(S)
                S2 == RemoveEfragsFrom(S, e)
                free2 == FreeListOf(S2)
                chains2 == LeafChainsOf(S2)
            IN /\ EntChainOf(S2, e) = <<>>
               /\ \A k \in 1..Len(mine) :
                     /\ InSeq(mine[k], free2)
                     /\ \A l \in DOMAIN chains2 : ~InSeq(mine[k], chains2[l])
               /\ \A l \in DOMAIN chains : chains2[l] = Without(chains[l], mine)
               /\ \A e2 \in Ents \ {e} : EntChainOf(S2, e2) = EntChainOf(S, e2)
               /\ Len(free2) = Len(FreeListOf(S)) + Len(mine)
               /\ Without(free2, mine) = FreeListOf(S)

\* an entity was removed whose record shared a leaf's chain with the record
\* of the other entity, which is still on that chain
C28_Witness ==
    /\ ehist.op = "remove"
    /\ ehist.fresh
    /\ ent_efrag[ehist.ent] = 0
    /\ free_efrags # 0
    /\ efrags[free_efrags].entity = ehist.ent
    /\ \E e2 \in Ents \ {ehist.ent} :
          /\ ent_efrag[e2] # 0
          /\ efrags[ent_efrag[e2]].leaf = efrags[free_efrags].leaf
          /\ LeafChainOf(EState, efrags[ent_efrag[e2]].leaf.idx + 1)
                = <<ent_efrag[e2]>>

\* how often seq holds record r
RECURSIVE Occurrences(_, _)
Occurrences(r, seq) ==
    IF seq = <<>> THEN 0
    ELSE (IF Head(seq) = r THEN 1 ELSE 0) + Occurrences(r, Tail(seq))

\* how often the chains of the entities ents hold record r
RECURSIVE OnChains(_, _, _)
OnChains(S, r, ents) ==
    IF ents = {} THEN 0
    ELSE LET e == CHOOSE x \in ents : TRUE
         IN Occurrences(r, EntChainOf(S, e)) + OnChains(S, r, ents \ {e})

\* the lengths of the chains of the entities ents, added up
RECURSIVE ChainsLen(_, _)
ChainsLen(S, ents) ==
    IF ents = {} THEN 0
    ELSE LET e == CHOOSE x \in ents : TRUE
         IN Len(EntChainOf(S, e)) + ChainsLen(S, ents \ {e})

\* C29 (specification SpecEfragFresh, in which R_AddEfrags is applied only
\* to entities whose chain is empty): every record is in exactly one place,
\* the free list or the chain of one entity; a record is on a leaf's chain
\* exactly when it is on an entity's chain, and then once, on the chain of
\* the leaf it names; the lengths of the free list and of the entities'
\* chains add up to the pool size.
C29_RecordsAccounted ==
    LET S == EState
        free == FreeListOf(S)
        chains == LeafChainsOf(S)
    IN /\ \A r \in 1..MaxEfrags :
             LET onEnt == OnChains(S, r, Ents) > 0
                 onLeaf == \E l \in DOMAIN chains : InSeq(r, chains[l])
             IN /\ Occurrences(r, free) + OnChains(S, r, Ents) = 1
                /\ onLeaf <=> onEnt
                /\ onEnt =>
                      /\ S.efrags[r].leaf.kind = "leaf"
                      /\ \A l \in DOMAIN chains :
                            Occurrences(r, chains[l])
                               = IF S.efrags[r].leaf = LeafRef(l - 1)
                                 THEN 1 ELSE 0
       /\ Len(free) + ChainsLen(S, Ents) = MaxEfrags

\* both entities hold a fragment on the chain of the same leaf and the
\* free list is empty
C29_Witness ==
    /\ \A e \in Ents : ent_efrag[e] # 0
    /\ \E l \in DOMAIN leaf_efrags : Len(LeafChainOf(EState, l)) = 2
    /\ free_efrags = 0
    /\ ehist.op = "add"

(***************************************************************************)
(* Properties of the loaded tree and of the hulls (specification Spec)     *)
(***************************************************************************)
\* the nodes and leafs that the child slots lead to from ref, ref included,
\* by at most fuel steps
RECURSIVE Below(_, _, _)
Below(m, ref, fuel) ==
    IF ref.kind = "null" \/ fuel = 0 THEN {}
    ELSE IF ref.kind = "leaf" THEN {ref}
    ELSE {ref} \cup Below(m, m.nodes[ref.idx + 1].children[1], fuel - 1)
               \cup Below(m, m.nodes[ref.idx + 1].children[2], fuel - 1)

\* the child slots of the node table that hold ref
ListedBy(m, ref) ==
    {<<i, j>> \in (1..Len(m.nodes)) \X (1..2) : m.nodes[i].children[j] = ref}

\* the tables are a tree: every child slot holds a node or a leaf, every
\* leaf has a negative contents, node 0 is nobody's child and no node or
\* leaf is the child of two slots
WellFormedTree(m) ==
    /\ Len(m.nodes) > 0
    /\ \A k \in 1..Len(m.leafs) : m.leafs[k].contents < 0
    /\ \A i \in 1..Len(m.nodes), j \in 1..2 :
          m.nodes[i].children[j].kind # "null"
    /\ ListedBy(m, NodeRef(0)) = {}
    /\ \A i \in 1..Len(m.nodes) : Cardinality(ListedBy(m, NodeRef(i - 1))) <= 1
    /\ \A k \in 1..Len(m.leafs) : Cardinality(ListedBy(m, LeafRef(k - 1))) <= 1

\* the parent field of the node or leaf ref denotes
ParentOf(m, ref) ==
    IF ref.kind = "leaf" THEN m.leafs[ref.idx + 1].parent
    ELSE m.nodes[ref.idx + 1].parent

\* C21: in every registry slot whose node and leaf tables are a well-formed
\* tree, node 0 has no parent and each child of every node reached from
\* node 0 has that node as its parent.
C21_ParentLinks ==
    \A i \in 1..mod_numknown :
        LET m == mod_known[i]
        IN WellFormedTree(m) =>
              /\ m.nodes[1].parent = NullRef
              /\ \A r \in Below(m, NodeRef(0), Len(m.nodes) + 1) :
                    r.kind = "node" =>
                        \A j \in 1..2 :
                            ParentOf(m, m.nodes[r.idx + 1].children[j]) = r

\* a loaded tree of two nodes: node 1 under node 0, a leaf under node 1
C21_Witness ==
    /\ LastLoad
    /\ last.ret # 0
    /\ last.parsed
    /\ WellFormedTree(mod_known[last.ret])
    /\ Len(mod_known[last.ret].nodes) = 2
    /\ mod_known[last.ret].nodes[2].parent = NodeRef(0)
    /\ mod_known[last.ret].leafs[3].parent = NodeRef(1)

\* bit j (0, 1, 2) of a sign mask
MaskBit(mask, j) == (mask \div (2 ^ j)) % 2

\* C22: in every plane of every plane table the loader has built, bit i of
\* the sign mask is 1 exactly when component i of the normal is negative; a
\* zero component gives bit 0.
C22_SignMask ==
    \A s \in 1..mod_numknown :
        \A k \in 1..Len(mod_known[s].planes) :
            LET p == mod_known[s].planes[k]
            IN /\ p.signbits \in 0..7
               /\ \A i \in 0..2 :
                     (MaskBit(p.signbits, i) = 1) <=> (p.normal[i + 1] < 0)

\* the last load built a plane table that holds all eight combinations of
\* negative and positive components, and a normal with a zero component
C22_Witness ==
    /\ LastLoad
    /\ last.ret # 0
    /\ last.parsed
    /\ LET planes == mod_known[last.ret].planes
       IN /\ \A mask \in 0..7 :
                \E k \in 1..Len(planes) :
                    /\ planes[k].signbits = mask
                    /\ \A i \in 1..3 : planes[k].normal[i] # 0
          /\ \E k \in 1..Len(planes) :
                planes[k].normal = <<0, -1, 0>> /\ planes[k].signbits = 2

\* the slot holds a brush model whose load succeeded
LoadedBrush(m) == m.loaded /\ m.type = mod_brush

\* C23: in every loaded brush model, hulls 1 and 2 hold the loaded clipnode
\* array and the plane table of the model and are equal but for their box
\* extents, which are the two fixed boxes; hull 0 holds an array of its
\* own; hull 3 is as it was constructed.
C23_HullsShareClipnodes ==
    \A s \in 1..mod_numknown :
        LET m == mod_known[s]
        IN LoadedBrush(m) =>
              /\ Len(m.hulls) = MAX_MAP_HULLS
              /\ m.hulls[2].clipnodes = Arr("mod.clipnodes", m.clipnodes)
              /\ m.hulls[3].clipnodes = m.hulls[2].clipnodes
              /\ m.hulls[2].planes = Arr("mod.planes", m.planes)
              /\ m.hulls[3].planes = m.hulls[2].planes
              /\ [m.hulls[2] EXCEPT !.clip_mins = Vec0, !.clip_maxs = Vec0]
                    = [m.hulls[3] EXCEPT !.clip_mins = Vec0, !.clip_maxs = Vec0]
              /\ m.hulls[2].clip_mins = <<-16, -16, -24>>
              /\ m.hulls[2].clip_maxs = <<16, 16, 32>>
              /\ m.hulls[3].clip_mins = <<-32, -32, -24>>
              /\ m.hulls[3].clip_maxs = <<32, 32, 64>>
              /\ m.hulls[1].clipnodes.kind \notin {"null", "mod.clipnodes"}
              /\ m.hulls[4] = NewHull

\* the last load succeeded on a file with clipnodes and nodes
C23_Witness ==
    /\ LastLoad
    /\ last.ret # 0
    /\ last.parsed
    /\ LoadedBrush(mod_known[last.ret])
    /\ Len(mod_known[last.ret].clipnodes) = 2
    /\ Len(mod_known[last.ret].hulls[1].clipnodes.data) = 2
    /\ mod_known[last.ret].hulls[3].clipnodes.data = mod_known[last.ret].clipnodes

\* C24: in every loaded brush model, hulls 0, 1 and 2 have firstclipnode 0
\* and lastclipnode one less than the length of their clipnode array.
C24_HullRanges ==
    \A s \in 1..mod_numknown :
        LET m == mod_known[s]
        IN LoadedBrush(m) =>
              \A h \in 1..3 :
                  /\ m.hulls[h].firstclipnode = 0
                  /\ m.hulls[h].lastclipnode
                        = Len(m.hulls[h].clipnodes.data) - 1

\* C25: a load of a sprite or alias name that reads a file of at least four
\* bytes whose tag is not BSPVERSION returns the model, tagged sprite for
\* the ".spr" name and alias otherwise and marked loaded, with every other
\* field, the tables and hulls among them, as before the call.
C25_NonBrushTaggedOnly ==
    [][\A n \in {SpriteName, AliasName} :
          (/\ last'.op \in {"Mod_ForName", "Mod_LoadModel"}
           /\ last'.name = n
           /\ last'.fetched
           /\ pak[n] # <<>>
           /\ pak[n][1].byteLength >= 4
           /\ pak[n][1].magic # BSPVERSION)
          => /\ last'.err = "none"
             /\ ~last'.parsed
             /\ last'.ret \in 1..mod_numknown'
             /\ mod_known'[last'.ret] =
                    [mod_known[last'.ret] EXCEPT
                        !.name = n,
                        !.type = IF n = SpriteName THEN mod_sprite
                                 ELSE mod_alias,
                        !.loaded = TRUE]
             /\ Tables(mod_known'[last'.ret]) = Tables(NewModel)]_vars

\* a sprite file was loaded under the sprite name
C25_Witness ==
    /\ LastLoad
    /\ last.name = SpriteName
    /\ last.fetched
    /\ pak[SpriteName] # <<>>
    /\ pak[SpriteName][1].magic # BSPVERSION
    /\ last.ret # 0
    /\ mod_known[last.ret].type = mod_sprite
    /\ mod_known[last.ret].loaded
    /\ mod_known[last.ret].hulls = <<>>

\* the file under name n is a brush file that the loader parses
BrushFileUnder(n) ==
    /\ pak[n] # <<>>
    /\ pak[n][1].byteLength >= 4
    /\ pak[n][1].magic = BSPVERSION

\* C27: when Mod_ClearAll has cleared the loaded model of a name and no
\* load has read the name since, the next load of that name asks the byte
\* source again, parses again when the file is a brush file, returns the
\* slot the name had before, ends without exception, and leaves the slot
\* count, every slot's name and every other slot as they were.
C27_ReloadAfterClear ==
    [][\A n \in Names :
          (/\ reload[n].slot # 0
           /\ ~reload[n].again
           /\ last'.op \in {"Mod_ForName", "Mod_LoadModel"}
           /\ last'.name = n)
          => /\ last'.fetched
             /\ BrushFileUnder(n) => last'.parsed
             /\ last'.err = "none"
             /\ last'.ret = reload[n].slot
             /\ mod_known'[last'.ret].loaded
             /\ mod_numknown' = mod_numknown
             /\ \A i \in 1..MAX_MOD_KNOWN :
                   /\ mod_known'[i].name = mod_known[i].name
                   /\ i # reload[n].slot => mod_known'[i] = mod_known[i]]_vars

\* a brush model was read and parsed again after Mod_ClearAll, while the
\* other slot still holds the tables of a model that was not reloaded
C27_Witness ==
    /\ LastLoad
    /\ last.name = MapName
    /\ last.fetched
    /\ last.parsed
    /\ last.ret # 0
    /\ reload[MapName] = [slot |-> last.ret, again |-> TRUE]
    /\ \E i \in 1..mod_numknown :
          /\ i # last.ret
          /\ ~mod_known[i].loaded
          /\ Len(mod_known[i].planes) > 0

\* every lump of the file lies inside the buffer, behind a whole header
WellLaidOut(f) ==
    /\ f.byteLength >= HeaderSize
    /\ \A k \in 1..Len(LumpNames) : DataViewOK(f, LumpNames[k])

\* every child index of the file's node table denotes a node or a leaf of
\* the file's tables
ChildrenInRange(f) ==
    \A i \in 1..Len(f.nodes), j \in 1..2 :
        LET child == f.nodes[i].children[j]
        IN IF child >= 0 THEN child < Len(f.nodes)
           ELSE BitNot(child) < Len(f.leafs)

\* C30: a load of a well-laid-out brush file whose child indices are all in
\* range does not end with the call stack exhausted (the RangeError of a
\* recursion that does not return), also when a node is its own child or
\* the child of one of its descendants.
C30_SetParentTerminates ==
    (/\ LastLoadReadFile
     /\ LastFile.magic = BSPVERSION
     /\ WellLaidOut(LastFile)
     /\ ChildrenInRange(LastFile))
    => last.err # "RangeError"

(***************************************************************************)
(* Properties of the server host (specification SpecHost)                  *)
(***************************************************************************)
\* number of active client slots
ActiveCount(clients) ==
    Cardinality({i \in 1..Len(clients) : clients[i].active})

\* every slot below maxclients is active
ServerFull(clients, maxclients) ==
    \A i \in 1..maxclients : clients[i].active

\* some slot holds the socket
Holds(clients, sock) ==
    \E i \in 1..Len(clients) : clients[i].netconnection = sock

\* C26: the number of active client slots never exceeds maxclients, neither
\* between frames nor after the connections of a frame were handed out; a
\* socket handed out while every slot is active is closed and leaves every
\* slot as it was, and a socket is turned away only when every slot is
\* active.
C26_ClientLimit ==
    /\ ActiveCount(svs_clients) <= svs_maxclients
    /\ hhist.op = "Host_ServerFrame" =>
          /\ ActiveCount(hhist.afterCheck) <= svs_maxclients
          /\ (ServerFull(hhist.before, svs_maxclients)
              /\ hhist.pending # <<>>) =>
                 /\ hhist.afterCheck = hhist.before
                 /\ \A k \in 1..Len(hhist.pending) :
                       hhist.pending[k] \in net_closed
          /\ \A k \in 1..Len(hhist.pending) :
                ~Holds(hhist.afterCheck, hhist.pending[k]) =>
                    /\ hhist.pending[k] \in net_closed
                    /\ ServerFull(hhist.afterCheck, svs_maxclients)

\* a frame that was handed a socket while both slots of a two-client server
\* were active
C26_Witness ==
    /\ hhist.op = "Host_ServerFrame"
    /\ svs_maxclients = 2
    /\ ServerFull(hhist.before, svs_maxclients)
    /\ hhist.pending # <<>>
    /\ hhist.pending[1] \in net_closed
    /\ hhist.afterCheck = hhist.before

\* C31: the cursor of every client's reliable message buffer stays between
\* 0 and the buffer's maxsize, whatever connects, drops and frames came
\* before.
C31_BufferBounded ==
    \A i \in 1..Len(svs_clients) :
        /\ 0 <= svs_clients[i].message.cursize
        /\ svs_clients[i].message.cursize <= svs_clients[i].message.maxsize

\* the name, frags and colors reset for slot n as it goes over the wire
Notice(n) ==
    <<svc_updatename, n, 0, svc_updatefrags, n, 0, 0, svc_updatecolors, n, 0>>

\* msg with bytes behind what it held
Appended(msg, bytes) ==
    [msg EXCEPT !.data = @ \o bytes, !.cursize = @ + Len(bytes)]

NoDuplicates(seq) ==
    \A i, j \in 1..Len(seq) : seq[i] = seq[j] => i = j

\* the host state SV_DropClient works on
HostState ==
    [clients |-> svs_clients, closed |-> net_closed, log |-> net_closelog]

\* C32: SV_DropClient on an active slot leaves the slot inactive, unspawned,
\* with dropasap cleared and without a connection, hands the slot's
\* connection to Close once, and appends the reset notification for the slot
\* to the buffer of every slot that is still active, leaving every other
\* slot as it was; on an inactive slot it changes nothing; no connection is
\* ever closed twice.
C32_DropClient ==
    /\ NoDuplicates(net_closelog)
    /\ \A n \in 0..(Len(svs_clients) - 1) :
       \A r \in {SV_DropClient(HostState, svs_maxclients, n)} :
          IF svs_clients[n + 1].active
          THEN /\ ~r.clients[n + 1].active
               /\ ~r.clients[n + 1].spawned
               /\ ~r.clients[n + 1].dropasap
               /\ r.clients[n + 1].netconnection = 0
               /\ r.log = IF svs_clients[n + 1].netconnection # 0
                          THEN Append(net_closelog,
                                      svs_clients[n + 1].netconnection)
                          ELSE net_closelog
               /\ NoDuplicates(r.log)
               /\ \A i \in 1..Len(svs_clients) :
                     i # n + 1 =>
                        r.clients[i] =
                           IF svs_clients[i].active
                           THEN [svs_clients[i] EXCEPT
                                    !.message = Appended(@, Notice(n))]
                           ELSE svs_clients[i]
          ELSE r = HostState

(***************************************************************************)
(* Properties of a frame (specification SpecFrame)                         *)
(***************************************************************************)
\* the slots to which the last frame tried to send: active, connected,
\* spawned, able to send and with something in the buffer
Tried ==
    {i \in 0..(svs_maxclients - 1) :
        /\ fhist.afterRun[i + 1].active
        /\ fhist.afterRun[i + 1].netconnection # 0
        /\ fhist.afterRun[i + 1].spawned
        /\ i \in fhist.ready
        /\ fhist.afterRun[i + 1].message.cursize > 0}

\* the slots the send loop of the last frame passed over
Skipped ==
    {i \in 0..(svs_maxclients - 1) :
        \/ ~fhist.afterRun[i + 1].active
        \/ fhist.afterRun[i + 1].netconnection = 0
        \/ ~fhist.afterRun[i + 1].spawned
        \/ i \notin fhist.ready}

FrameStep == fhist'.tick # fhist.tick

\* the state of the host module and of its driver
HostProgramVars ==
    <<host_inited, sv_active, svs_maxclients, svs_clients, net_listening,
      net_pending, net_closed, net_next, clockVars, net_closelog>>

\* the sockets of a sequence
Socks(pending) == {pending[k] : k \in 1..Len(pending)}

\* C34: a call of Host_ServerFrame while the server is not active changes
\* nothing.  A call while it is active advances host_time by the frame time,
\* and sv.time by the frame time unless the server is paused, in which case
\* sv.time stays; it hands out every queued connection before it reads the
\* clients (a connection lost in the frame that accepted it is closed in
\* that frame) and reads the clients before it sends (what a client that can
\* send holds at the end of the frame are only the notifications of the
\* clients dropped by the send itself).
C34_ServerFrame ==
    [][FrameStep =>
          IF ~sv_active
          THEN UNCHANGED HostProgramVars
          ELSE /\ host_time' = host_time + fhist'.frametime
               /\ sv_time' = IF sv_paused THEN sv_time
                             ELSE sv_time + fhist'.frametime
               /\ host_frametime' = fhist'.frametime
               /\ sv_frametime' = fhist'.frametime
               /\ hhist'.pending = net_pending
               /\ net_pending' = <<>>
               /\ \A sock \in Socks(net_pending) :
                     \/ Holds(hhist'.afterCheck, sock)
                     \/ sock \in net_closed'
               /\ \A i \in fhist'.gone :
                     /\ hhist'.afterCheck[i + 1].active
                     /\ hhist'.afterCheck[i + 1].netconnection \in net_closed'
                     /\ ~fhist'.afterRun[i + 1].active
               /\ \A j \in fhist'.ready :
                     svs_clients'[j + 1].active =>
                        svs_clients'[j + 1].message.cursize =
                           DropNoticeSize *
                              Cardinality((Tried' \cap fhist'.failed) \ {j})
    ]_vars

\* a frame of a paused server that took one tick, accepted a connection and
\* lost it again
C34_Witness ==
    /\ fhist.active
    /\ fhist.paused
    /\ fhist.frametime = 1
    /\ host_time = fhist.host_time + 1
    /\ sv_time = fhist.sv_time
    /\ \E i \in fhist.gone :
          /\ hhist.afterCheck[i + 1].netconnection \in Socks(hhist.pending)
          /\ hhist.afterCheck[i + 1].netconnection \in net_closed

====
